---- MODULE Spec2Model ----
(***************************************************************************)
(* A model of the ZeroEval tracer (Tracer, Span, the AsyncLocalStorage     *)
(* span stacks and the span writers).                                      *)
(*                                                                         *)
(* Objects live in heaps that are sequences: a span is named by its index  *)
(* in `spans` (its object identity), an array allocated by als.enterWith   *)
(* by its index in `arrays`, an execution context (async resource) by its  *)
(* index in `store`.  Identifiers produced by randomUUID() are the values  *)
(* of the counter `uuids`.                                                 *)
(***************************************************************************)
EXTENDS Integers, Sequences, FiniteSets, TLC

\* ------------------------------------------------------------------ bounds
MaxSpanCount == 3      \* spans created in one behaviour
MaxCtxSpans == 2       \* spans created in one behaviour of the span stacks alone
MaxTimerSpans == 2     \* spans created in one behaviour of the periodic timer
MaxCtx == 3            \* execution contexts (async resources) in one behaviour
MaxClock == 8          \* the last value of Date.now() in one behaviour
MaxTagSpans == 2       \* spans created in one behaviour of the tag operations
MaxLifeSpans == 2      \* spans created in one behaviour of the tracer's life cycle
MaxShutdowns == 2      \* shutdown() calls in one behaviour
MaxIdSpans == 3        \* spans created in one behaviour of the failing id source
MaxFieldSpans == 1     \* spans created in one behaviour of the span field operations
MaxPendingOps == 3     \* add and pop calls on the pending-signal store in one behaviour
MaxSigSpans == 2       \* spans created in one behaviour of the signal delivery
MaxSignals == 2        \* sendTraceSignal and sendSessionSignal calls in one behaviour
MaxTagCalls == 1       \* addTraceTags and addSessionTags calls in one behaviour
NChains == 3           \* async call chains launched by one caller

\* --------------------------------------------------------------- constants
Undefined == 0         \* a field or store that is not set
NaN == -1              \* undefined - 1 in _activeTraceCounts
DefaultFlushIntervalMs == 10000
DefaultMaxSpans == 100
TickMs == 1000

VARIABLES
  spans,               \* heap of Span objects
  uuids,               \* number of randomUUID() results handed out
  tagObjs,             \* heap of the tag objects spans hold in their tags field
  arrays,              \* heap of span stacks allocated by als.enterWith
  store,               \* store[c]: the array the context c holds, or Undefined
  ctxParent,           \* ctxParent[c]: the context c was created in, or Undefined
  inherited,           \* inherited[c]: the array c held when it was created, or Undefined
  startedIn,           \* startedIn[s]: the context that called startSpan for s
  activeTraceCounts,   \* Tracer._activeTraceCounts
  traceBuckets,        \* Tracer._traceBuckets
  buffer,              \* Tracer._buffer
  maxSpans,            \* Tracer._maxSpans
  flushIntervalMs,     \* Tracer._flushIntervalMs
  sinceLastFlush,      \* Date.now() - Tracer._lastFlush, saturating
  writer,              \* the kind of Tracer._writer
  inflight,            \* batches whose writer.write has not settled
  written,             \* batches delivered: the write resolved, the POST succeeded
  failed,              \* spans of a batch whose write rejected or whose POST failed
  last,                \* the context of the last endSpan call, where recorded
  pc,                  \* pc[i]: where the async call chain i stands
  chainCtx,            \* chainCtx[i]: the context chain i runs in
  chainSpans,          \* chainSpans[i]: the spans chain i started
  now,                 \* Date.now()
  endTime,             \* endTime of one Span object, or Undefined
  firstEnd,            \* the endTime its first end() call set, or Undefined
  lastCall,            \* the last startSpan, addTraceTags or addSessionTags call, where recorded
  owed,                \* owed[s]: the trace tags added while span s was active
  shuttingDown,        \* Tracer._shuttingDown
  integrations,        \* the keys of Tracer._integrations
  teardowns,           \* teardowns[k]: the teardown() calls integration k received
  origin,              \* origin[i]: the caller of the flush() that handed over inflight[i]
  uncaught,            \* rejections of a flush() promise that reached the caller of flush()
  shutdownCalls,       \* the shutdown() calls made
  late,                \* the spans started after the first shutdown() call
  startThrew,          \* startThrew: a startSpan call threw to its caller
  spanFields,          \* spanFields[s]: status, error, inputData, outputData and signals
                       \* of span s, for the spans on which one of them was set
  traceBuffer,         \* pendingSignals.ts traceBuffer: traceId -> name -> signal
  sessionBuffer,       \* pendingSignals.ts sessionBuffer: sessionId -> name -> signal
  popResult,           \* what the last popPending* call returned: <<>> for undefined
  opLog,               \* the add and pop calls made on the store, where recorded
  phase,               \* phase[i]: where BackendSpanWriter.write is with batch inflight[i]
  bulk,                \* bulk[i]: the trace and session signals write popped for inflight[i]
  sentBulks,           \* the bodies POSTed to /signals/bulk for trace and session signals
  shipped,             \* those of them the backend accepted
  posted,              \* the spans of the batches the backend accepted
  recorded,            \* the values of the signals recorded and not overwritten since
  serial,              \* the sendTraceSignal and sendSessionSignal calls made
  call,                \* the instrumented call being made: the wrapper, the wrapped
                       \* function's outcome and what the caller got
  endCalls,            \* endCalls[s]: the tracer.endSpan(s) calls the wrappers made
  cacheData,           \* TTLCache.data: the entries in the insertion order of the Map
  cacheUse,            \* the keys in the order of their last set or successful get, the latest last
  lastSet,             \* lastSet[k]: the time and the value of the last set(k, v) call
  cacheLast,           \* the last call made on the cache and what it returned
  handlerSpans,        \* ZeroEvalCallbackHandler.spans: the Map runId -> span, in insertion order
  spanStartTimes,      \* ZeroEvalCallbackHandler.spanStartTimes: the Map runId -> Date.now() at the start
  cleanupTimer,        \* the handler's cleanup interval is set
  sweep,               \* the loop of cleanupOrphanedSpans or destroy being run and the runIds it has to visit
  endedBy,             \* endedBy[s]: what passed span s to tracer.endSpan first, where recorded
  handlerThrew         \* a callback of the handler threw to LangChain

tracerVars == <<spans, tagObjs, uuids, arrays, store, ctxParent, inherited, startedIn,
                activeTraceCounts, traceBuckets, buffer, maxSpans,
                flushIntervalMs, sinceLastFlush, writer, inflight, written,
                failed>>
chainVars == <<pc, chainCtx, chainSpans>>
spanVars == <<now, endTime, firstEnd>>
tagVars == <<lastCall, owed>>
lifeVars == <<shuttingDown, integrations, teardowns, origin, uncaught, shutdownCalls, late>>
errVars == <<startThrew>>
fieldVars == <<spanFields>>
pendVars == <<traceBuffer, sessionBuffer, popResult, opLog>>
sigVars == <<phase, bulk, sentBulks, shipped, posted, recorded, serial>>
callVars == <<call, endCalls>>
cacheVars == <<cacheData, cacheUse, lastSet, cacheLast>>
handlerVars == <<handlerSpans, spanStartTimes, cleanupTimer, sweep, endedBy, handlerThrew>>
extVars == <<errVars, fieldVars, pendVars, sigVars, callVars, cacheVars, handlerVars>>
auxVars == <<spanVars, tagVars, lifeVars, extVars>>
vars == <<tracerVars, last, chainVars, auxVars>>


\* ----------------------------------------------------------------- helpers
Range(s) == {s[i] : i \in 1..Len(s)}
Min(a, b) == IF a < b THEN a ELSE b
Top(stk) == IF Len(stk) = 0 THEN Undefined ELSE stk[Len(stk)]
Pop(stk) == SubSeq(stk, 1, Len(stk) - 1)
RemoveAt(seq, i) == SubSeq(seq, 1, i - 1) \o SubSeq(seq, i + 1, Len(seq))
Has(f, k) == k \in DOMAIN f
Put(f, k, v) == [x \in (DOMAIN f) \cup {k} |-> IF x = k THEN v ELSE f[x]]
Delete(f, k) == [x \in (DOMAIN f) \ {k} |-> f[x]]
Flat(batches) == LET F[i \in 0..Len(batches)] ==
                       IF i = 0 THEN <<>> ELSE F[i - 1] \o batches[i]
                 IN F[Len(batches)]

\* ----------------------------------------------------- AsyncLocalStorage
\* one stack for the whole process: every context reads context 1's array
getStoreGlobal(c) == IF store[1] = Undefined THEN <<>> ELSE arrays[store[1]]

\* als.getStore() in context c: the array held by c, as a value
getStore(c) == IF store[c] = Undefined THEN <<>> ELSE arrays[store[c]]

\* a currentSpan that returns the bottom of the stack instead of its top
currentSpanBottom(c) == IF Len(getStore(c)) = 0 THEN Undefined ELSE getStore(c)[1]

\* Tracer.currentSpan(): the top of the context's stack
currentSpan(c) == Top(getStore(c))

\* ------------------------------------------------------------------- Span
\* {}: an object without keys (no tags, no options)
Empty == [k \in {} |-> Undefined]

\* { ...a, ...b } and Object.assign(a, b): the keys of both, b's value on a
\* key both have
Merge(a, b) == [k \in (DOMAIN a) \cup (DOMAIN b) |-> IF k \in DOMAIN b THEN b[k] ELSE a[k]]

\* the tags object a span holds
TagsOf(s) == tagObjs[spans[s].tags]

\* opts.tags spread into an object literal: nothing when it is undefined
OptTags(opts) == IF Has(opts, "tags") THEN opts.tags ELSE Empty

\* new Span(name, traceId): spanId and, for a span without a trace, traceId
\* are fresh UUIDs
NewSpan(traceId) ==
  [spanId      |-> uuids + 1,
   traceId     |-> IF traceId # Undefined THEN traceId ELSE uuids + 2,
   parentId    |-> Undefined,
   sessionId   |-> Undefined,
   sessionName |-> Undefined,
   tags        |-> Len(tagObjs) + 1,
   ended       |-> FALSE]

\* JavaScript values passed to the span: a string, an object that
\* JSON.stringify can serialize (json is the text it returns), an object
\* with a circular reference, and undefined
JSUndefined == [type |-> "undefined", text |-> "", json |-> ""]
JSString == [type |-> "string", text |-> "input string", json |-> "\"input string\""]
JSObject == [type |-> "object", text |-> "", json |-> "{\"key\":\"value\"}"]
JSCircular == [type |-> "circular", text |-> "", json |-> ""]
JSValues == {JSUndefined, JSString, JSObject, JSCircular}

\* JSON.stringify(v) throws (TypeError: Converting circular structure to JSON)
StringifyThrows(v) == v.type = "circular"

\* No instrumented call is being made. An instrumented call is a record: the
\* wrapper (api), where it stands (pc), the span it started, whether the
\* wrapped function is a native AsyncFunction (isAsync), whether
\* opts.inputData was given (io), whether params.stream was set (streaming),
\* the argument passed (arg), the chunks the stream yielded (chunks), what the
\* wrapped function did (fn, fnValue, fnError) and what the caller of the
\* wrapper got (got, gotValue, gotError)
NoCall ==
  [api |-> "none", pc |-> "idle", span |-> Undefined, isAsync |-> FALSE, io |-> FALSE,
   streaming |-> FALSE, arg |-> JSUndefined, chunks |-> 0,
   fn |-> "", fnValue |-> JSUndefined, fnError |-> <<>>,
   got |-> "", gotValue |-> JSUndefined, gotError |-> <<>>]

\* typeof v === 'string' ? v : JSON.stringify(v), as <<text>>, for a v on
\* which it does not throw
Stringified(v) == IF v.type = "string" THEN <<v.text>> ELSE <<v.json>>

\* the fields of a span after its constructor: status 'ok', no error, no
\* inputData, no outputData, no signals (an absent value is <<>>)
NewFields ==
  [status |-> "ok", error |-> <<>>, inputData |-> <<>>, outputData |-> <<>>,
   signals |-> Empty]
FieldsOf(s) == IF Has(spanFields, s) THEN spanFields[s] ELSE NewFields

\* a setError that keeps the error recorded first
setErrorKeepFirst(f, info) ==
  [f EXCEPT !.error = IF f.error = <<>> THEN <<info>> ELSE f.error, !.status = "error"]

\* Span.setError(info) on a span with fields f
setError(f, info) == [f EXCEPT !.error = <<info>>, !.status = "error"]

\* Span.setIO throws: one of the JSON.stringify calls it makes does
setIOThrows(input, output) ==
  \/ StringifyThrows(input)
  \/ input.type # "circular" /\ StringifyThrows(output)

\* a setIO that assigns both fields whatever it is passed
setIOAssignBoth(f, input, output) ==
  [f EXCEPT !.inputData = IF input.type = "undefined" \/ StringifyThrows(input)
                          THEN <<>> ELSE Stringified(input),
            !.outputData = IF output.type = "undefined" \/ setIOThrows(input, output)
                           THEN <<>> ELSE Stringified(output)]

\* Span.setIO(input, output) on a span with fields f: the fields when the call
\* returns or throws
setIO(f, input, output) ==
  [f EXCEPT !.inputData = IF input.type = "undefined" \/ StringifyThrows(input)
                          THEN @ ELSE Stringified(input),
            !.outputData = IF output.type = "undefined" \/ setIOThrows(input, output)
                           THEN @ ELSE Stringified(output)]

\* error?.code, error?.message, error?.stack: <<>> for undefined
errorField(f, k) ==
  IF f.error # <<>> /\ Has(f.error[1], k) THEN <<f.error[1][k]>> ELSE <<>>

\* Span.toJSON() on a span with fields f
toJSON(f) ==
  [status |-> f.status, input_data |-> f.inputData, output_data |-> f.outputData,
   signals |-> f.signals,
   error_code |-> errorField(f, "code"),
   error_message |-> errorField(f, "message"),
   error_stack |-> errorField(f, "stack")]

\* the record BackendSpanWriter.write puts in the payload for the span
\* record base: error_stack is String(base.error_stack ?? '')
payloadOf(base) ==
  [status |-> base.status, input_data |-> base.input_data,
   output_data |-> base.output_data,
   error_code |-> base.error_code,
   error_message |-> base.error_message,
   error_stack |-> IF base.error_stack = <<>> THEN <<"">> ELSE base.error_stack]

\* the strings Number() turns into a finite number, and those it turns into
\* Infinity or -Infinity; it turns every other string into NaN
NumericStrings == {"1", "0.5", ""}
InfiniteStrings == {"Infinity"}
\* isNaN(Number(value)) for a string value
isNaNNumber(text) == text \notin NumericStrings \cup InfiniteStrings

\* String(value).toLowerCase()
toLowerCase(text) ==
  CASE text = "TRUE" -> "true"
    [] text = "Infinity" -> "infinity"
    [] OTHER -> text

\* the type Span.addSignal detects for a value passed without a type
signalType(value) ==
  IF value.type = "boolean" THEN "boolean"
  ELSE IF value.type = "number" THEN "numerical"
  ELSE IF toLowerCase(value.text) \in {"true", "false"} THEN "boolean"
  ELSE IF ~isNaNNumber(value.text) THEN "numerical"
  ELSE "boolean"

\* detectSignalType(value)
detectSignalType(value) ==
  IF value.type = "boolean" THEN "boolean"
  ELSE IF value.type = "number" THEN "numerical"
  ELSE LET strVal == toLowerCase(value.text)
       IN IF strVal = "true" \/ strVal = "false" THEN "boolean"
          ELSE IF ~isNaNNumber(value.text) THEN "numerical"
          ELSE "boolean"

\* Span.addSignal(name, value, type) on a span with fields f; type is <<>>
\* when the argument is not passed
addSignal(f, name, value, type) ==
  [f EXCEPT !.signals = Put(@, name, [value |-> value,
                                      type |-> IF type = <<>> THEN signalType(value)
                                               ELSE type[1]])]

\* an add that keeps the signal a name already has
addPendingKeepFirst(buf, id, name, signal) ==
  LET bucket == IF Has(buf, id) THEN buf[id] ELSE Empty
  IN Put(buf, id, IF Has(bucket, name) THEN bucket ELSE Put(bucket, name, signal))

\* addPendingTraceSignal / addPendingSessionSignal on the buffer buf:
\* bucket = (buf[id] ||= {}); bucket[name] = signal
addPending(buf, id, name, signal) ==
  Put(buf, id, Put(IF Has(buf, id) THEN buf[id] ELSE Empty, name, signal))

\* what popPendingTraceSignals / popPendingSessionSignals returns on buf
\* (<<>> for undefined), and buf after it
popReturns(buf, id) == IF Has(buf, id) THEN <<buf[id]>> ELSE <<>>
popPending(buf, id) == IF Has(buf, id) THEN Delete(buf, id) ELSE buf

\* the SignalCreate records flushTraceSessionSignals builds for a batch from
\* what it pops for the trace ids and the session ids of the batch
TraceIdsOf(batch) == {spans[s].traceId : s \in Range(batch)}
SessionIdsOf(batch) == {spans[s].sessionId : s \in Range(batch)} \ {Undefined}
SignalCreates(entityType, buf, ids) ==
  {[entity_type |-> entityType, entity_id |-> id, name |-> name,
    value |-> buf[id][name].value, signal_type |-> buf[id][name].type] :
     <<id, name>> \in UNION {{<<i, n>> : n \in DOMAIN buf[i]} : i \in ids \cap DOMAIN buf}}
poppedBulk(batch) ==
  SignalCreates("trace", traceBuffer, TraceIdsOf(batch))
    \cup SignalCreates("session", sessionBuffer, SessionIdsOf(batch))

\* a writer that pops the pending signals while the POST of the spans is
\* still under way
popAllowedBeforePost(ph) == ph \in {"posting", "posted"}

\* flushTraceSessionSignals is called in the res.ok branch only
popAllowed(ph) == ph = "posted"

\* randomUUID() calls made by startSpan
UuidsUsed(parent, opts) ==
  IF parent # Undefined THEN 1
  ELSE IF Has(opts, "sessionId") THEN 2 ELSE 3

\* a startSpan in which the session passed by the caller wins over the parent's
StartedSpanOwnSession(parent, opts) ==
  LET span == NewSpan(IF parent # Undefined THEN spans[parent].traceId ELSE Undefined)
  IN [span EXCEPT
        !.parentId = IF parent # Undefined THEN spans[parent].spanId ELSE Undefined,
        !.sessionId = IF Has(opts, "sessionId") THEN opts.sessionId
                      ELSE IF parent # Undefined THEN spans[parent].sessionId
                      ELSE uuids + 3,
        !.sessionName = IF Has(opts, "sessionName") THEN opts.sessionName
                        ELSE IF parent # Undefined THEN spans[parent].sessionName
                        ELSE Undefined]

\* the span startSpan(name, opts) builds in a context whose current span is
\* parent
StartedSpan(parent, opts) ==
  IF parent # Undefined
  THEN [NewSpan(spans[parent].traceId) EXCEPT
          !.parentId = spans[parent].spanId,
          !.sessionId = spans[parent].sessionId,
          !.sessionName = spans[parent].sessionName]
  ELSE [NewSpan(Undefined) EXCEPT
          !.sessionId = IF Has(opts, "sessionId") THEN opts.sessionId ELSE uuids + 3,
          !.sessionName = IF Has(opts, "sessionName") THEN opts.sessionName
                          ELSE Undefined]

\* tags in which the parent's value wins on a key both have
StartedTagsParentWins(parent, opts) ==
  IF parent # Undefined
  THEN Merge(OptTags(opts), TagsOf(parent))
  ELSE OptTags(opts)

\* the tags object startSpan gives the span: { ...parent.tags, ...opts.tags }
\* or { ...opts.tags }
StartedTags(parent, opts) ==
  IF parent # Undefined
  THEN Merge(TagsOf(parent), OptTags(opts))
  ELSE Merge(Empty, OptTags(opts))

\* ------------------------------------------------------------- bookkeeping
\* (this._activeTraceCounts[t] || 0) + 1
CountAfterStart(t) ==
  IF Has(activeTraceCounts, t) /\ activeTraceCounts[t] # NaN
  THEN activeTraceCounts[t] + 1
  ELSE 1

\* this._activeTraceCounts[t] -= 1
CountAfterEnd(t) ==
  IF Has(activeTraceCounts, t) /\ activeTraceCounts[t] # NaN
  THEN activeTraceCounts[t] - 1
  ELSE NaN

\* (a) => (a.parentId ? 1 : -1), the comparator of traceBucket.sort
Compare(a, b) == IF spans[a].parentId # Undefined THEN 1 ELSE -1

\* Array.prototype.sort as the Node runtime (V8) performs it on an array of
\* fewer than 64 elements: one run is counted (and reversed when it descends),
\* the rest is inserted by binary insertion.  Indices below are 0-based as in
\* the runtime; arr[i + 1] is element i.
RECURSIVE RunLength(_, _, _)
RunLength(arr, isDescending, idx) ==
  IF idx >= Len(arr) THEN idx
  ELSE LET order == Compare(arr[idx + 1], arr[idx])
       IN IF (isDescending /\ order >= 0) \/ (~isDescending /\ order < 0)
          THEN idx
          ELSE RunLength(arr, isDescending, idx + 1)

Reverse(s) == [i \in 1..Len(s) |-> s[Len(s) + 1 - i]]

RECURSIVE BinarySearch(_, _, _, _)
BinarySearch(arr, pivot, left, right) ==
  IF left >= right THEN left
  ELSE LET mid == left + ((right - left) \div 2)
       IN IF Compare(pivot, arr[mid + 1]) < 0
          THEN BinarySearch(arr, pivot, left, mid)
          ELSE BinarySearch(arr, pivot, mid + 1, right)

RECURSIVE BinaryInsertionSort(_, _)
BinaryInsertionSort(arr, start) ==
  IF start >= Len(arr) THEN arr
  ELSE LET pivot == arr[start + 1]
           left == BinarySearch(arr, pivot, 0, start)
       IN BinaryInsertionSort(
            SubSeq(arr, 1, left) \o <<pivot>> \o SubSeq(arr, left + 1, start)
              \o SubSeq(arr, start + 2, Len(arr)),
            start + 1)

\* traceBucket.sort((a) => (a.parentId ? 1 : -1))
SortBucket(arr) ==
  IF Len(arr) < 2 THEN arr
  ELSE LET isDescending == Compare(arr[2], arr[1]) < 0
           run == RunLength(arr, isDescending, 2)
           made == IF isDescending
                   THEN Reverse(SubSeq(arr, 1, run)) \o SubSeq(arr, run + 1, Len(arr))
                   ELSE arr
       IN BinaryInsertionSort(made, run)

\* Tracer.isActiveTrace(traceId)
isActiveTrace(t) == Has(activeTraceCounts, t) \/ Has(traceBuckets, t)

\* ------------------------------------------------------------------ flush
\* a threshold test that fires only above maxSpans
BufferFullAbove(buf) == Len(buf) > maxSpans

\* this._buffer.length >= this._maxSpans, the test at the end of endSpan
BufferFull(buf) == Len(buf) >= maxSpans

\* a timer test that never finds a flush due
FlushDueNever(since) == since < 0

\* Date.now() - this._lastFlush >= this._flushIntervalMs, the timer's test
FlushDue(since) == since >= flushIntervalMs

\* a flush that hands the buffer to the writer without splicing it out
flushCopy(buf, since) ==
  IF Len(buf) = 0
  THEN /\ buffer' = buf
       /\ inflight' = inflight
       /\ sinceLastFlush' = since
  ELSE /\ buffer' = buf
       /\ inflight' = Append(inflight, buf)
       /\ sinceLastFlush' = 0

\* Tracer.flush() up to its await, run on the buffer contents buf when
\* Date.now() - _lastFlush is since: the whole buffer is spliced out and
\* handed to writer.write
flush(buf, since) ==
  IF Len(buf) = 0
  THEN /\ buffer' = buf
       /\ inflight' = inflight
       /\ sinceLastFlush' = since
  ELSE /\ buffer' = <<>>
       /\ inflight' = Append(inflight, buf)
       /\ sinceLastFlush' = 0

\* a catch block that puts the failed batch behind the buffer (push)
afterWritePush(i, result) ==
  /\ inflight' = RemoveAt(inflight, i)
  /\ buffer' = IF result = "rejected" THEN buffer \o inflight[i] ELSE buffer

\* Tracer.flush() after its await: writer.write(batch i) settled with result
afterWrite(i, result) ==
  /\ inflight' = RemoveAt(inflight, i)
  /\ buffer' = IF result = "rejected" THEN inflight[i] \o buffer ELSE buffer

\* BackendSpanWriter.write: how its promise settles for each outcome of the POST
BackendWrite(outcome) ==
  CASE outcome = "ok" -> "resolved"
    [] outcome = "non2xx" -> "resolved"
    [] outcome = "network_error" -> "resolved"

\* the integrations discoverIntegrations() can return
IntegrationKeys == {"langchain", "langgraph"}

\* the callers of flush(): the three inside the tracer attach .catch(log) to
\* the promise, the code using the tracer gets the promise itself
Caught(caller) == caller \in {"endSpan", "tick", "shutdown"}

\* a shutdown() that does not look at _shuttingDown
NeverShuttingDown == FALSE

\* the guard of shutdown(): if (this._shuttingDown) return
AlreadyShuttingDown == shuttingDown

\* ---------------------------------------------------------------- actions
\* Tracer._writer: the default of the constructor, or a writer put in its place
WriterKinds == {"BackendSpanWriter", "SpanWriter"}

Init ==
  /\ spans = <<>>
  /\ tagObjs = <<>>
  /\ uuids = 0
  /\ arrays = <<>>
  /\ store = <<Undefined>>
  /\ ctxParent = <<Undefined>>
  /\ inherited = <<Undefined>>
  /\ startedIn = <<>>
  /\ activeTraceCounts = <<>>
  /\ traceBuckets = <<>>
  /\ buffer = <<>>
  /\ maxSpans = DefaultMaxSpans
  /\ flushIntervalMs = DefaultFlushIntervalMs
  /\ sinceLastFlush = 0
  /\ writer \in WriterKinds
  /\ inflight = <<>>
  /\ written = <<>>
  /\ failed = {}
  /\ last = Undefined
  /\ pc = [i \in 1..NChains |-> "new"]
  /\ chainCtx = [i \in 1..NChains |-> 1]
  /\ chainSpans = [i \in 1..NChains |-> <<>>]
  /\ now = 1
  /\ endTime = Undefined
  /\ firstEnd = Undefined
  /\ lastCall = [n |-> 0, op |-> "none", id |-> Undefined, arg |-> Empty]
  /\ owed = <<>>
  /\ shuttingDown = FALSE
  /\ integrations = {}
  /\ teardowns = [k \in IntegrationKeys |-> 0]
  /\ origin = <<>>
  /\ uncaught = 0
  /\ shutdownCalls = 0
  /\ late = {}
  /\ startThrew = FALSE
  /\ spanFields = Empty
  /\ traceBuffer = Empty
  /\ sessionBuffer = Empty
  /\ popResult = <<>>
  /\ opLog = <<>>
  /\ phase = <<>>
  /\ bulk = <<>>
  /\ sentBulks = <<>>
  /\ shipped = <<>>
  /\ posted = {}
  /\ recorded = {}
  /\ serial = 0
  /\ call = NoCall
  /\ endCalls = Empty
  /\ cacheData = <<>>
  /\ cacheUse = <<>>
  /\ lastSet = Empty
  /\ cacheLast = [n |-> 0, op |-> "none", key |-> "", result |-> <<>>]
  /\ handlerSpans = <<>>
  /\ spanStartTimes = <<>>
  /\ cleanupTimer = TRUE
  /\ sweep = [mode |-> "idle", todo |-> <<>>]
  /\ endedBy = Empty
  /\ handlerThrew = FALSE

\* a configure that applies the new threshold to the buffer at once
configureRetroactive(opts) ==
  /\ flushIntervalMs' = IF Has(opts, "flushInterval")
                        THEN opts.flushInterval * 1000 ELSE flushIntervalMs
  /\ maxSpans' = IF Has(opts, "maxSpans") THEN opts.maxSpans ELSE maxSpans
  /\ IF Has(opts, "maxSpans") /\ Len(buffer) >= opts.maxSpans
     THEN flush(buffer, sinceLastFlush)
     ELSE UNCHANGED <<buffer, inflight, sinceLastFlush>>
  /\ UNCHANGED <<spans, tagObjs, uuids, arrays, store, ctxParent, inherited, startedIn,
                 activeTraceCounts, traceBuckets, writer, written, failed>>

\* Tracer.configure(opts)
configure(opts) ==
  /\ flushIntervalMs' = IF Has(opts, "flushInterval")
                        THEN opts.flushInterval * 1000 ELSE flushIntervalMs
  /\ maxSpans' = IF Has(opts, "maxSpans") THEN opts.maxSpans ELSE maxSpans
  /\ UNCHANGED <<spans, tagObjs, uuids, arrays, store, ctxParent, inherited, startedIn,
                 activeTraceCounts, traceBuckets, buffer, sinceLastFlush, writer, inflight,
                 written, failed>>

\* a new async resource created in context c (a promise, a timer, the
\* continuation of an await): it holds the array c holds at that moment
fork(c) ==
  /\ store' = Append(store, store[c])
  /\ ctxParent' = Append(ctxParent, c)
  /\ inherited' = Append(inherited, store[c])
  /\ UNCHANGED <<spans, tagObjs, uuids, arrays, startedIn, activeTraceCounts,
                 traceBuckets, buffer, maxSpans, flushIntervalMs,
                 sinceLastFlush, writer, inflight, written, failed>>

\* Tracer.startSpan(name, opts) called in context c when the k-th
\* randomUUID() call it makes throws: the exception leaves new Span(...) or
\* the sessionId assignment before anything of the tracer was changed, and
\* nothing in startSpan catches it
startSpanThrows(c, opts, k) ==
  /\ k \in 1..UuidsUsed(currentSpan(c), opts)
  /\ UNCHANGED tracerVars

\* Tracer.startSpan(name, opts) called in context c
startSpan(c, opts) ==
  /\ LET parent == currentSpan(c)
         span == StartedSpan(parent, opts)
     IN /\ spans' = Append(spans, span)
        /\ tagObjs' = Append(tagObjs, StartedTags(parent, opts))
        /\ uuids' = uuids + UuidsUsed(parent, opts)
        /\ startedIn' = Append(startedIn, c)
        /\ arrays' = Append(arrays, Append(getStore(c), Len(spans) + 1))
        /\ store' = [store EXCEPT ![c] = Len(arrays) + 1]
        /\ activeTraceCounts' =
             Put(activeTraceCounts, span.traceId, CountAfterStart(span.traceId))
  /\ UNCHANGED <<ctxParent, inherited, traceBuckets, buffer, maxSpans, flushIntervalMs,
                 sinceLastFlush, writer, inflight, written, failed>>

\* a test that finds the span anywhere on the stack of context c
isOnStack(c, s) == store[c] # Undefined /\ s \in Range(arrays[store[c]])

\* stack && stack[stack.length - 1] === span, in context c
isTopOfStack(c, s) == store[c] # Undefined /\ Top(arrays[store[c]]) = s

\* an endSpan that leaves the bucket of a completed trace where it is
endSpanKeepsBucket(c, s) ==
  LET t == spans[s].traceId
      traceBucket == Append(IF Has(traceBuckets, t) THEN traceBuckets[t] ELSE <<>>, s)
      count == CountAfterEnd(t)
      buf == IF count = 0 THEN buffer \o SortBucket(traceBucket) ELSE buffer
  IN /\ spans' = [spans EXCEPT ![s].ended = TRUE]
     /\ arrays' = IF isTopOfStack(c, s)
                  THEN [arrays EXCEPT ![store[c]] = Pop(@)]
                  ELSE arrays
     /\ traceBuckets' = Put(traceBuckets, t, traceBucket)
     /\ activeTraceCounts' = IF count = 0 THEN Delete(activeTraceCounts, t)
                             ELSE Put(activeTraceCounts, t, count)
     /\ IF BufferFull(buf)
        THEN flush(buf, sinceLastFlush)
        ELSE /\ buffer' = buf
             /\ UNCHANGED <<inflight, sinceLastFlush>>
     /\ UNCHANGED <<tagObjs, uuids, store, ctxParent, inherited, startedIn,
                    maxSpans, flushIntervalMs, writer, written, failed>>

\* Tracer.endSpan(span) called in context c on the span object s
endSpan(c, s) ==
  LET t == spans[s].traceId
      traceBucket == Append(IF Has(traceBuckets, t) THEN traceBuckets[t] ELSE <<>>, s)
      count == CountAfterEnd(t)
      buf == IF count = 0 THEN buffer \o SortBucket(traceBucket) ELSE buffer
  IN /\ spans' = [spans EXCEPT ![s].ended = TRUE]
     /\ arrays' = IF isTopOfStack(c, s)
                  THEN [arrays EXCEPT ![store[c]] = Pop(@)]
                  ELSE arrays
     /\ traceBuckets' = IF count = 0 THEN Delete(traceBuckets, t)
                        ELSE Put(traceBuckets, t, traceBucket)
     /\ activeTraceCounts' = IF count = 0 THEN Delete(activeTraceCounts, t)
                             ELSE Put(activeTraceCounts, t, count)
     /\ IF BufferFull(buf)
        THEN flush(buf, sinceLastFlush)
        ELSE /\ buffer' = buf
             /\ UNCHANGED <<inflight, sinceLastFlush>>
     /\ UNCHANGED <<tagObjs, uuids, store, ctxParent, inherited, startedIn,
                    maxSpans, flushIntervalMs, writer, written, failed>>

\* an addTraceTags that only looks into the trace's bucket
TraceTagTargetsBucketOnly(traceId) ==
  Range(IF Has(traceBuckets, traceId) THEN traceBuckets[traceId] ELSE <<>>)

\* the spans addTraceTags(traceId, tags) reaches: those of the trace's bucket
\* and those of the buffer that have the traceId
TraceTagTargets(traceId) ==
  Range(IF Has(traceBuckets, traceId) THEN traceBuckets[traceId] ELSE <<>>)
    \cup {s \in Range(buffer) : spans[s].traceId = traceId}

\* the spans addSessionTags(sessionId, tags) reaches: those of all buckets and
\* of the buffer that have the sessionId
SessionTagTargets(sessionId) ==
  {s \in UNION {Range(traceBuckets[t]) : t \in DOMAIN traceBuckets} \cup Range(buffer) :
     spans[s].sessionId = sessionId}

\* Object.assign(span.tags, tags) for every span of targets
assignTags(targets, tags) ==
  /\ tagObjs' = [o \in DOMAIN tagObjs |->
                   IF \E s \in targets : spans[s].tags = o
                   THEN Merge(tagObjs[o], tags)
                   ELSE tagObjs[o]]
  /\ UNCHANGED <<spans, uuids, arrays, store, ctxParent, inherited, startedIn,
                 activeTraceCounts, traceBuckets, buffer, maxSpans,
                 flushIntervalMs, sinceLastFlush, writer, inflight, written,
                 failed>>

\* Tracer.addTraceTags(traceId, tags)
addTraceTags(traceId, tags) == assignTags(TraceTagTargets(traceId), tags)

\* Tracer.addSessionTags(sessionId, tags)
addSessionTags(sessionId, tags) == assignTags(SessionTagTargets(sessionId), tags)

\* Tracer.shutdown()
shutdown ==
  IF AlreadyShuttingDown
  THEN UNCHANGED <<tracerVars, shuttingDown, teardowns>>
  ELSE /\ shuttingDown' = TRUE
       /\ flush(buffer, sinceLastFlush)
       /\ teardowns' = [k \in IntegrationKeys |->
                          IF k \in integrations THEN teardowns[k] + 1 ELSE teardowns[k]]
       /\ UNCHANGED <<spans, tagObjs, uuids, arrays, store, ctxParent, inherited,
                      startedIn, activeTraceCounts, traceBuckets, maxSpans,
                      flushIntervalMs, writer, written, failed>>

\* Tracer._setupAvailableIntegrations() sets up integration key
setupIntegration(key) ==
  /\ integrations' = integrations \cup {key}
  /\ UNCHANGED tracerVars

\* a caller ends a span it started and has not ended yet
EndSpan(c, s) ==
  /\ ~spans[s].ended
  /\ endSpan(c, s)

\* a direct call of Tracer.flush()
Flush ==
  /\ flush(buffer, sinceLastFlush)
  /\ UNCHANGED <<spans, tagObjs, uuids, arrays, store, ctxParent, inherited, startedIn,
                 activeTraceCounts, traceBuckets, maxSpans, flushIntervalMs, writer, written,
                 failed>>

\* the setInterval callback of the constructor, fired every second
Tick ==
  /\ LET since == Min(sinceLastFlush + TickMs, DefaultFlushIntervalMs)
     IN IF FlushDue(since)
        THEN flush(buffer, since)
        ELSE /\ sinceLastFlush' = since
             /\ UNCHANGED <<buffer, inflight>>
  /\ UNCHANGED <<spans, tagObjs, uuids, arrays, store, ctxParent, inherited, startedIn,
                 activeTraceCounts, traceBuckets, maxSpans, flushIntervalMs, writer, written,
                 failed>>

\* the write of batch i by an injected SpanWriter resolves or rejects
WriteSettles(i, result) ==
  /\ writer = "SpanWriter"
  /\ afterWrite(i, result)
  /\ written' = IF result = "resolved" THEN Append(written, inflight[i]) ELSE written
  /\ failed' = IF result = "rejected" THEN failed \cup Range(inflight[i]) ELSE failed
  /\ UNCHANGED <<spans, tagObjs, uuids, arrays, store, ctxParent, inherited, startedIn,
                 activeTraceCounts, traceBuckets, maxSpans, flushIntervalMs,
                 sinceLastFlush, writer>>

\* the POST of batch i by BackendSpanWriter.write ends with outcome
BackendWriteSettles(i, outcome) ==
  /\ writer = "BackendSpanWriter"
  /\ afterWrite(i, BackendWrite(outcome))
  /\ written' = IF outcome = "ok" THEN Append(written, inflight[i]) ELSE written
  /\ failed' = IF outcome # "ok" THEN failed \cup Range(inflight[i]) ELSE failed
  /\ UNCHANGED <<spans, tagObjs, uuids, arrays, store, ctxParent, inherited, startedIn,
                 activeTraceCounts, traceBuckets, maxSpans, flushIntervalMs, sinceLastFlush,
                 writer>>

\* ---------------------------------------------------------- specifications
\* The tracer with an injected writer, driven from one execution context:
\* spans start and end in any order, flush() is called, writes settle.
MaxSpansOptions == {[maxSpans |-> 0], [maxSpans |-> 1], [maxSpans |-> 2]}

StartSpan(c) ==
  /\ Len(spans) < MaxSpanCount
  /\ startSpan(c, Empty)

Next ==
  \/ \E opts \in MaxSpansOptions : configure(opts) /\ UNCHANGED <<last, chainVars, auxVars>>
  \/ StartSpan(1) /\ UNCHANGED <<last, chainVars, auxVars>>
  \/ \E s \in 1..Len(spans) : EndSpan(1, s) /\ UNCHANGED <<last, chainVars, auxVars>>
  \/ Flush /\ UNCHANGED <<last, chainVars, auxVars>>
  \/ \E i \in 1..Len(inflight), r \in {"resolved", "rejected"} :
       WriteSettles(i, r) /\ UNCHANGED <<last, chainVars, auxVars>>

InitSpanWriter == Init /\ writer = "SpanWriter"

Spec == InitSpanWriter /\ [][Next]_vars

\* The tracer as constructed, with the default BackendSpanWriter.
NextBackend ==
  \/ \E opts \in MaxSpansOptions : configure(opts) /\ UNCHANGED <<last, chainVars, auxVars>>
  \/ StartSpan(1) /\ UNCHANGED <<last, chainVars, auxVars>>
  \/ \E s \in 1..Len(spans) : EndSpan(1, s) /\ UNCHANGED <<last, chainVars, auxVars>>
  \/ Flush /\ UNCHANGED <<last, chainVars, auxVars>>
  \/ \E i \in 1..Len(inflight), o \in {"ok", "non2xx", "network_error"} :
       BackendWriteSettles(i, o) /\ UNCHANGED <<last, chainVars, auxVars>>

InitBackendSpanWriter == Init /\ writer = "BackendSpanWriter"

SpecBackend == InitBackendSpanWriter /\ [][NextBackend]_vars

\* The span stacks alone: contexts fork, start and end spans in any order.
CtxFork(c) ==
  /\ Len(store) < MaxCtx
  /\ fork(c)
  /\ UNCHANGED <<last, chainVars, auxVars>>

CtxStartSpan(c) ==
  /\ Len(spans) < MaxCtxSpans
  /\ startSpan(c, Empty)
  /\ UNCHANGED <<last, chainVars, auxVars>>

CtxEndSpan(c, s) ==
  /\ EndSpan(c, s)
  /\ last' = c
  /\ UNCHANGED <<chainVars, auxVars>>

NextCtx ==
  \/ \E c \in 1..Len(store) : CtxFork(c)
  \/ \E c \in 1..Len(store) : CtxStartSpan(c)
  \/ \E c \in 1..Len(store), s \in 1..Len(spans) : CtxEndSpan(c, s)

SpecCtx == InitSpanWriter /\ [][NextCtx]_vars

\* The periodic timer: spans are started and ended, nobody calls flush().
FlushIntervalOptions == {[flushInterval |-> 0], [flushInterval |-> 2]}

TimerStartSpan ==
  /\ Len(spans) < MaxTimerSpans
  /\ startSpan(1, Empty)
  /\ UNCHANGED <<last, chainVars, auxVars>>

TimerTick ==
  /\ Tick
  /\ UNCHANGED <<last, chainVars, auxVars>>

NextTimer ==
  \/ \E opts \in FlushIntervalOptions : configure(opts) /\ UNCHANGED <<last, chainVars, auxVars>>
  \/ TimerStartSpan
  \/ \E s \in 1..Len(spans) : EndSpan(1, s) /\ UNCHANGED <<last, chainVars, auxVars>>
  \/ TimerTick
  \/ \E i \in 1..Len(inflight), r \in {"resolved", "rejected"} :
       WriteSettles(i, r) /\ UNCHANGED <<last, chainVars, auxVars>>

\* the timer keeps ticking: setInterval fires its callback every second
SpecTimer == InitSpanWriter /\ [][NextTimer]_vars /\ WF_vars(TimerTick)

\* Async call chains launched one after another by one caller, in context 1,
\* without an await between the launches.  Each chain is
\*   parent = startSpan(); await; child = startSpan(); await;
\*   endSpan(child); endSpan(parent)
\* A chain runs in the caller's context up to its first await; after an
\* await it continues in a context created at that await.  The event loop
\* runs one synchronous segment at a time.
Busy == \E j \in 1..NChains : pc[j] \in {"parentStarted", "childStarted", "childEnded"}
AllLaunched == \A j \in 1..NChains : pc[j] \notin {"new", "parentStarted"}

ChainStartParent(i) ==
  /\ pc[i] = "new"
  /\ ~Busy
  /\ \A j \in 1..(i - 1) : pc[j] # "new"
  /\ startSpan(1, Empty)
  /\ pc' = [pc EXCEPT ![i] = "parentStarted"]
  /\ chainSpans' = [chainSpans EXCEPT ![i] = <<Len(spans) + 1>>]
  /\ UNCHANGED <<chainCtx, last, auxVars>>

ChainAwait(i) ==
  /\ pc[i] \in {"parentStarted", "childStarted"}
  /\ fork(chainCtx[i])
  /\ chainCtx' = [chainCtx EXCEPT ![i] = Len(store) + 1]
  /\ pc' = [pc EXCEPT ![i] = IF pc[i] = "parentStarted" THEN "await1" ELSE "await2"]
  /\ UNCHANGED <<chainSpans, last, auxVars>>

ChainStartChild(i) ==
  /\ pc[i] = "await1"
  /\ AllLaunched
  /\ ~Busy
  /\ startSpan(chainCtx[i], Empty)
  /\ pc' = [pc EXCEPT ![i] = "childStarted"]
  /\ chainSpans' = [chainSpans EXCEPT ![i] = Append(@, Len(spans) + 1)]
  /\ UNCHANGED <<chainCtx, last, auxVars>>

ChainEndChild(i) ==
  /\ pc[i] = "await2"
  /\ ~Busy
  /\ EndSpan(chainCtx[i], chainSpans[i][2])
  /\ pc' = [pc EXCEPT ![i] = "childEnded"]
  /\ UNCHANGED <<chainCtx, chainSpans, last, auxVars>>

ChainEndParent(i) ==
  /\ pc[i] = "childEnded"
  /\ EndSpan(chainCtx[i], chainSpans[i][1])
  /\ pc' = [pc EXCEPT ![i] = "done"]
  /\ UNCHANGED <<chainCtx, chainSpans, last, auxVars>>

AllDone == \A j \in 1..NChains : pc[j] = "done"

ChainsFlush ==
  /\ AllDone
  /\ Len(buffer) > 0
  /\ Flush
  /\ UNCHANGED <<chainVars, last, auxVars>>

ChainsWritten ==
  /\ \E i \in 1..Len(inflight) : WriteSettles(i, "resolved")
  /\ UNCHANGED <<chainVars, last, auxVars>>

NextChains ==
  \/ \E i \in 1..NChains : ChainStartParent(i)
  \/ \E i \in 1..NChains : ChainAwait(i)
  \/ \E i \in 1..NChains : ChainStartChild(i)
  \/ \E i \in 1..NChains : ChainEndChild(i)
  \/ \E i \in 1..NChains : ChainEndParent(i)
  \/ ChainsFlush
  \/ ChainsWritten

SpecChains == InitSpanWriter /\ [][NextChains]_vars

\* The tag operations: spans are started with options, ended, tagged by
\* trace and by session, flushed; the writes resolve.
SessionIds == {101}
SessionNames == {201}
TagArgs == {[version |-> "1.0"], [environment |-> "prod"]}
StartOptions ==
  {Empty,
   [tags |-> [environment |-> "test", user |-> "u"]],
   [sessionId |-> 101, sessionName |-> 201, tags |-> [environment |-> "prod"]]}

\* what the tags so far owed to a span become when a later call reaches it
Overridden(map, tags) ==
  [k \in DOMAIN map |-> IF k \in DOMAIN tags THEN tags[k] ELSE map[k]]

TagStartSpan(opts) ==
  /\ Len(spans) < MaxTagSpans
  /\ startSpan(1, opts)
  /\ lastCall' = [lastCall EXCEPT !.op = "startSpan", !.id = Undefined, !.arg = opts]
  /\ owed' = Append(owed, Empty)
  /\ UNCHANGED <<last, chainVars, spanVars, lifeVars, extVars>>

TagEndSpan(s) ==
  /\ EndSpan(1, s)
  /\ UNCHANGED <<last, chainVars, auxVars>>

TagAddTraceTags(traceId, tags) ==
  /\ lastCall.n < MaxTagCalls
  /\ addTraceTags(traceId, tags)
  /\ lastCall' = [n |-> lastCall.n + 1, op |-> "addTraceTags", id |-> traceId, arg |-> tags]
  /\ owed' = [s \in DOMAIN owed |->
                IF spans[s].traceId = traceId /\ ~spans[s].ended
                THEN Merge(owed[s], tags)
                ELSE IF s \in TraceTagTargets(traceId)
                THEN Overridden(owed[s], tags)
                ELSE owed[s]]
  /\ UNCHANGED <<last, chainVars, spanVars, lifeVars, extVars>>

TagAddSessionTags(sessionId, tags) ==
  /\ lastCall.n < MaxTagCalls
  /\ addSessionTags(sessionId, tags)
  /\ lastCall' = [n |-> lastCall.n + 1, op |-> "addSessionTags", id |-> sessionId, arg |-> tags]
  /\ owed' = [s \in DOMAIN owed |->
                IF s \in SessionTagTargets(sessionId)
                THEN Overridden(owed[s], tags)
                ELSE owed[s]]
  /\ UNCHANGED <<last, chainVars, spanVars, lifeVars, extVars>>

TagFlush ==
  /\ Flush
  /\ UNCHANGED <<last, chainVars, auxVars>>

TagWriteSettles(i) ==
  /\ WriteSettles(i, "resolved")
  /\ UNCHANGED <<last, chainVars, auxVars>>

NextTags ==
  \/ \E opts \in StartOptions : TagStartSpan(opts)
  \/ \E s \in 1..Len(spans) : TagEndSpan(s)
  \/ \E s \in 1..Len(spans), tags \in TagArgs : TagAddTraceTags(spans[s].traceId, tags)
  \/ \E s \in 1..Len(spans), tags \in TagArgs : TagAddSessionTags(spans[s].sessionId, tags)
  \/ TagFlush
  \/ \E i \in 1..Len(inflight) : TagWriteSettles(i)

SpecTags == InitSpanWriter /\ [][NextTags]_vars

\* The life cycle of the tracer: spans start and end, flush() is called by the
\* code using the tracer, by endSpan at the threshold and by shutdown();
\* integrations are set up; writes resolve or reject.
LifeOptions == {[maxSpans |-> 1]}

\* the caller of the flush() of this step, if it handed a batch over
FlushCalledBy(caller) ==
  origin' = IF Len(inflight') > Len(inflight) THEN Append(origin, caller) ELSE origin

LifeConfigure(opts) ==
  /\ configure(opts)
  /\ UNCHANGED <<last, chainVars, spanVars, tagVars, extVars, lifeVars>>

LifeStartSpan ==
  /\ Len(spans) < MaxLifeSpans
  /\ startSpan(1, Empty)
  /\ late' = IF shuttingDown THEN late \cup {Len(spans) + 1} ELSE late
  /\ UNCHANGED <<last, chainVars, spanVars, tagVars, extVars, shuttingDown, integrations,
                 teardowns, origin, uncaught, shutdownCalls>>

LifeEndSpan(s) ==
  /\ EndSpan(1, s)
  /\ FlushCalledBy("endSpan")
  /\ UNCHANGED <<last, chainVars, spanVars, tagVars, extVars, shuttingDown, integrations,
                 teardowns, uncaught, shutdownCalls, late>>

LifeFlush ==
  /\ Flush
  /\ FlushCalledBy("flush")
  /\ UNCHANGED <<last, chainVars, spanVars, tagVars, extVars, shuttingDown, integrations,
                 teardowns, uncaught, shutdownCalls, late>>

LifeShutdown ==
  /\ shutdownCalls < MaxShutdowns
  /\ shutdown
  /\ FlushCalledBy("shutdown")
  /\ shutdownCalls' = shutdownCalls + 1
  /\ UNCHANGED <<last, chainVars, spanVars, tagVars, extVars, integrations, uncaught, late>>

LifeSetupIntegration(key) ==
  /\ key \notin integrations
  /\ setupIntegration(key)
  /\ UNCHANGED <<last, chainVars, spanVars, tagVars, extVars, shuttingDown, teardowns,
                 origin, uncaught, shutdownCalls, late>>

\* the write of batch i settles: the promise of the flush() that made it
\* resolves or rejects, and a rejection that no .catch takes reaches the caller
LifeWriteSettles(i, result) ==
  /\ WriteSettles(i, result)
  /\ origin' = RemoveAt(origin, i)
  /\ uncaught' = IF result = "rejected" /\ ~Caught(origin[i]) THEN 1 ELSE uncaught
  /\ UNCHANGED <<last, chainVars, spanVars, tagVars, extVars, shuttingDown, integrations,
                 teardowns, shutdownCalls, late>>

NextLife ==
  \/ \E opts \in LifeOptions : LifeConfigure(opts)
  \/ LifeStartSpan
  \/ \E s \in 1..Len(spans) : LifeEndSpan(s)
  \/ LifeFlush
  \/ LifeShutdown
  \/ \E key \in IntegrationKeys : LifeSetupIntegration(key)
  \/ \E i \in 1..Len(inflight), result \in {"resolved", "rejected"} : LifeWriteSettles(i, result)

SpecLife == InitSpanWriter /\ [][NextLife]_vars

\* The id source fails: any randomUUID() call of a startSpan may throw.
IdOptions == {Empty, [sessionId |-> 101]}

IdStartSpan(opts) ==
  /\ Len(spans) < MaxIdSpans
  /\ startSpan(1, opts)
  /\ UNCHANGED <<last, chainVars, auxVars>>

IdStartSpanThrows(opts, k) ==
  /\ Len(spans) < MaxIdSpans
  /\ startSpanThrows(1, opts, k)
  /\ startThrew' = TRUE
  /\ UNCHANGED <<last, chainVars, spanVars, tagVars, lifeVars, fieldVars, pendVars, sigVars, callVars, cacheVars, handlerVars>>

IdEndSpan(s) ==
  /\ EndSpan(1, s)
  /\ UNCHANGED <<last, chainVars, auxVars>>

IdFlush ==
  /\ Flush
  /\ UNCHANGED <<last, chainVars, auxVars>>

IdWriteSettles(i) ==
  /\ WriteSettles(i, "resolved")
  /\ UNCHANGED <<last, chainVars, auxVars>>

NextIds ==
  \/ \E opts \in IdOptions : IdStartSpan(opts)
  \/ \E opts \in IdOptions, k \in 1..3 : IdStartSpanThrows(opts, k)
  \/ \E s \in 1..Len(spans) : IdEndSpan(s)
  \/ IdFlush
  \/ \E i \in 1..Len(inflight) : IdWriteSettles(i)

SpecIds == InitSpanWriter /\ [][NextIds]_vars

\* The fields of the spans of a tracer: spans are started, get errors, input
\* and output, signals and trace tags, are ended through the tracer or with
\* Span.end(), flushed, and put back when the write is rejected.
ErrorInfos ==
  {[code |-> "ERR_TEST", message |-> "Test error message"],
   [code |-> "TypeError", message |-> "Cannot read properties of undefined",
    stack |-> "TypeError: Cannot read properties of undefined\n    at fn"]}
SignalNames == {"quality"}
SignalValues ==
  {[type |-> "boolean", text |-> "true"], [type |-> "number", text |-> "1"],
   [type |-> "string", text |-> "0.5"], [type |-> "string", text |-> "TRUE"],
   [type |-> "string", text |-> "Infinity"], [type |-> "string", text |-> "good"],
   [type |-> "string", text |-> ""]}
\* the type argument of addSignal: not passed, or one of the two types
SignalTypes == {<<>>, <<"boolean">>, <<"numerical">>}

FStartSpan ==
  /\ Len(spans) < MaxFieldSpans
  /\ startSpan(1, Empty)
  /\ UNCHANGED <<last, chainVars, auxVars>>

FSetError(s, info) ==
  /\ spanFields' = Put(spanFields, s, setError(FieldsOf(s), info))
  /\ lastCall' = [lastCall EXCEPT !.op = "setError", !.id = s, !.arg = info]
  /\ UNCHANGED <<tracerVars, last, chainVars, spanVars, owed, lifeVars, errVars, pendVars, sigVars, callVars, cacheVars, handlerVars>>

FSetIO(s, input, output) ==
  /\ spanFields' = Put(spanFields, s, setIO(FieldsOf(s), input, output))
  /\ UNCHANGED <<tracerVars, last, chainVars, spanVars, tagVars, lifeVars, errVars, pendVars, sigVars, callVars, cacheVars, handlerVars>>

FAddSignal(s, name, value) ==
  /\ spanFields' = Put(spanFields, s, addSignal(FieldsOf(s), name, value, <<>>))
  /\ UNCHANGED <<tracerVars, last, chainVars, spanVars, tagVars, lifeVars, errVars, pendVars, sigVars, callVars, cacheVars, handlerVars>>

\* Span.end() called on a span of the tracer by the code that holds it
FSpanEnd(s) ==
  /\ spans' = [spans EXCEPT ![s].ended = TRUE]
  /\ UNCHANGED <<tagObjs, uuids, arrays, store, ctxParent, inherited, startedIn,
                 activeTraceCounts, traceBuckets, buffer, maxSpans, flushIntervalMs,
                 sinceLastFlush, writer, inflight, written, failed>>
  /\ UNCHANGED <<last, chainVars, auxVars>>

FEndSpan(s) ==
  /\ s \notin Range(buffer) \cup Range(Flat(inflight)) \cup Range(Flat(written))
  /\ \A t \in DOMAIN traceBuckets : s \notin Range(traceBuckets[t])
  /\ endSpan(1, s)
  /\ UNCHANGED <<last, chainVars, auxVars>>

FAddTraceTags(traceId, tags) ==
  /\ addTraceTags(traceId, tags)
  /\ UNCHANGED <<last, chainVars, auxVars>>

FFlush ==
  /\ Flush
  /\ UNCHANGED <<last, chainVars, auxVars>>

FWriteSettles(i, result) ==
  /\ WriteSettles(i, result)
  /\ UNCHANGED <<last, chainVars, auxVars>>

NextFields ==
  \/ FStartSpan
  \/ \E s \in 1..Len(spans), info \in ErrorInfos : FSetError(s, info)
  \/ \E s \in 1..Len(spans), input \in {JSString} : FSetIO(s, input, JSUndefined)
  \/ \E s \in 1..Len(spans), name \in SignalNames : FAddSignal(s, name, [type |-> "boolean", text |-> "true"])
  \/ \E s \in 1..Len(spans) : FSpanEnd(s)
  \/ \E s \in 1..Len(spans) : FEndSpan(s)
  \/ \E s \in 1..Len(spans) : FAddTraceTags(spans[s].traceId, [version |-> "1.0"])
  \/ FFlush
  \/ \E i \in 1..Len(inflight), result \in {"resolved", "rejected"} : FWriteSettles(i, result)

SpecFields == InitSpanWriter /\ [][NextFields]_vars

\* One Span object by itself, as made by new Span('test'): its fields are
\* those of key TheSpan.
TheSpan == 1

IOSetIO(input, output) ==
  /\ spanFields' = Put(spanFields, TheSpan, setIO(FieldsOf(TheSpan), input, output))
  /\ lastCall' = [lastCall EXCEPT !.op = "setIO", !.id = TheSpan,
                                  !.arg = [input |-> input, output |-> output]]
  /\ UNCHANGED <<tracerVars, last, chainVars, spanVars, owed, lifeVars, errVars, pendVars, sigVars, callVars, cacheVars, handlerVars>>

IOSetError(info) ==
  /\ spanFields' = Put(spanFields, TheSpan, setError(FieldsOf(TheSpan), info))
  /\ lastCall' = [lastCall EXCEPT !.op = "setError", !.id = TheSpan, !.arg = info]
  /\ UNCHANGED <<tracerVars, last, chainVars, spanVars, owed, lifeVars, errVars, pendVars, sigVars, callVars, cacheVars, handlerVars>>

IOAddSignal(name, value, type) ==
  /\ spanFields' = Put(spanFields, TheSpan, addSignal(FieldsOf(TheSpan), name, value, type))
  /\ lastCall' = [lastCall EXCEPT !.op = "addSignal", !.id = TheSpan,
                                  !.arg = [name |-> name, value |-> value, type |-> type]]
  /\ UNCHANGED <<tracerVars, last, chainVars, spanVars, owed, lifeVars, errVars, pendVars, sigVars, callVars, cacheVars, handlerVars>>

NextSpanIO ==
  \/ \E input, output \in JSValues : IOSetIO(input, output)
  \/ \E info \in ErrorInfos : IOSetError(info)
  \/ \E name \in SignalNames, value \in SignalValues, type \in SignalTypes :
       IOAddSignal(name, value, type)

SpecSpanIO == InitSpanWriter /\ [][NextSpanIO]_vars

\* The pending-signal store by itself: signals are added and popped for
\* traces and sessions.
EntityIds == {2, 101}
PendingSignals ==
  {[value |-> [type |-> "boolean", text |-> "true"], type |-> "boolean"],
   [value |-> [type |-> "number", text |-> "1"], type |-> "numerical"]}
PendingNames == {"quality", "score"}

Logged(op, scope, id, name, signal) ==
  /\ Len(opLog) < MaxPendingOps
  /\ opLog' = Append(opLog, [op |-> op, scope |-> scope, id |-> id, name |-> name,
                             signal |-> signal])
  /\ UNCHANGED <<tracerVars, last, chainVars, spanVars, tagVars, lifeVars, errVars,
                 fieldVars, sigVars, callVars, cacheVars, handlerVars>>

AddPendingTraceSignal(traceId, name, signal) ==
  /\ traceBuffer' = addPending(traceBuffer, traceId, name, signal)
  /\ Logged("add", "trace", traceId, name, signal)
  /\ UNCHANGED <<sessionBuffer, popResult>>

PopPendingTraceSignals(traceId) ==
  /\ popResult' = popReturns(traceBuffer, traceId)
  /\ traceBuffer' = popPending(traceBuffer, traceId)
  /\ Logged("pop", "trace", traceId, "", CHOOSE g \in PendingSignals : TRUE)
  /\ UNCHANGED sessionBuffer

AddPendingSessionSignal(sessionId, name, signal) ==
  /\ sessionBuffer' = addPending(sessionBuffer, sessionId, name, signal)
  /\ Logged("add", "session", sessionId, name, signal)
  /\ UNCHANGED <<traceBuffer, popResult>>

PopPendingSessionSignals(sessionId) ==
  /\ popResult' = popReturns(sessionBuffer, sessionId)
  /\ sessionBuffer' = popPending(sessionBuffer, sessionId)
  /\ Logged("pop", "session", sessionId, "", CHOOSE g \in PendingSignals : TRUE)
  /\ UNCHANGED traceBuffer

NextPending ==
  \/ \E id \in EntityIds, name \in PendingNames, signal \in PendingSignals :
       AddPendingTraceSignal(id, name, signal)
  \/ \E id \in EntityIds : PopPendingTraceSignals(id)
  \/ \E id \in EntityIds, name \in PendingNames, signal \in PendingSignals :
       AddPendingSessionSignal(id, name, signal)
  \/ \E id \in EntityIds : PopPendingSessionSignals(id)

SpecPending == InitSpanWriter /\ [][NextPending]_vars

\* Signal delivery with the default BackendSpanWriter: spans start and end,
\* trace and session signals are recorded on the current span's trace and
\* session, flush() hands batches to write, whose POST of the spans, pop of
\* the pending signals and POST of the signals are separate steps that
\* interleave with everything else.
SigOptions == {Empty, [sessionId |-> 101]}

\* the write of a batch handed over in this step starts with its POST
WriteStarted ==
  /\ phase' = IF Len(inflight') > Len(inflight) THEN Append(phase, "posting") ELSE phase
  /\ bulk' = IF Len(inflight') > Len(inflight) THEN Append(bulk, {}) ELSE bulk

SigStartSpan(opts) ==
  /\ Len(spans) < MaxSigSpans
  /\ startSpan(1, opts)
  /\ UNCHANGED <<last, chainVars, auxVars>>

SigEndSpan(s) ==
  /\ EndSpan(1, s)
  /\ WriteStarted
  /\ UNCHANGED <<last, chainVars, spanVars, tagVars, lifeVars, errVars, fieldVars,
                 pendVars, sentBulks, shipped, posted, recorded, serial, callVars, cacheVars, handlerVars>>

SigFlush ==
  /\ Flush
  /\ WriteStarted
  /\ UNCHANGED <<last, chainVars, spanVars, tagVars, lifeVars, errVars, fieldVars,
                 pendVars, sentBulks, shipped, posted, recorded, serial, callVars, cacheVars, handlerVars>>

\* sendTraceSignal(name, value) with a number as value
SendTraceSignal(name) ==
  /\ serial < MaxSignals
  /\ serial' = serial + 1
  /\ IF currentSpan(1) = Undefined
     THEN UNCHANGED <<traceBuffer, recorded>>
     ELSE LET id == spans[currentSpan(1)].traceId
          IN /\ traceBuffer' = addPending(traceBuffer, id, name,
                                          [value |-> serial + 1, type |-> "numerical"])
             /\ recorded' = (recorded \ (IF Has(traceBuffer, id) /\ Has(traceBuffer[id], name)
                                          THEN {traceBuffer[id][name].value} ELSE {}))
                              \cup {serial + 1}
  /\ UNCHANGED <<tracerVars, last, chainVars, spanVars, tagVars, lifeVars, errVars,
                 fieldVars, sessionBuffer, popResult, opLog, phase, bulk, sentBulks,
                 shipped, posted, callVars, cacheVars, handlerVars>>

\* sendSessionSignal(name, value) with a number as value
SendSessionSignal(name) ==
  /\ serial < MaxSignals
  /\ serial' = serial + 1
  /\ IF currentSpan(1) = Undefined \/ spans[currentSpan(1)].sessionId = Undefined
     THEN UNCHANGED <<sessionBuffer, recorded>>
     ELSE LET id == spans[currentSpan(1)].sessionId
          IN /\ sessionBuffer' = addPending(sessionBuffer, id, name,
                                            [value |-> serial + 1, type |-> "numerical"])
             /\ recorded' = (recorded \ (IF Has(sessionBuffer, id) /\ Has(sessionBuffer[id], name)
                                          THEN {sessionBuffer[id][name].value} ELSE {}))
                              \cup {serial + 1}
  /\ UNCHANGED <<tracerVars, last, chainVars, spanVars, tagVars, lifeVars, errVars,
                 fieldVars, traceBuffer, popResult, opLog, phase, bulk, sentBulks,
                 shipped, posted, callVars, cacheVars, handlerVars>>

\* the promise write returned for batch i resolves
WriteReturns(i, outcome) ==
  /\ BackendWriteSettles(i, outcome)
  /\ phase' = RemoveAt(phase, i)
  /\ bulk' = RemoveAt(bulk, i)

\* the POST of the spans of batch i ends: with a response that is not ok or
\* with a network error write logs and returns
SpansPostSettles(i, outcome) ==
  /\ phase[i] = "posting"
  /\ IF outcome = "ok"
     THEN /\ phase' = [phase EXCEPT ![i] = "posted"]
          /\ posted' = posted \cup Range(inflight[i])
          /\ UNCHANGED <<tracerVars, bulk>>
     ELSE /\ WriteReturns(i, outcome)
          /\ UNCHANGED posted
  /\ UNCHANGED <<last, chainVars, spanVars, tagVars, lifeVars, errVars, fieldVars,
                 pendVars, sentBulks, shipped, recorded, serial, callVars, cacheVars, handlerVars>>

\* flushTraceSessionSignals for batch i: the pending signals of its traces
\* and sessions are popped and, if there are any, POSTed in one body
PopSignals(i) ==
  /\ popAllowed(phase[i])
  /\ traceBuffer' = [id \in DOMAIN traceBuffer \ TraceIdsOf(inflight[i]) |-> traceBuffer[id]]
  /\ sessionBuffer' = [id \in DOMAIN sessionBuffer \ SessionIdsOf(inflight[i]) |->
                          sessionBuffer[id]]
  /\ IF poppedBulk(inflight[i]) = {}
     THEN /\ WriteReturns(i, "ok")
          /\ UNCHANGED sentBulks
     ELSE /\ phase' = [phase EXCEPT ![i] = "signalling"]
          /\ bulk' = [bulk EXCEPT ![i] = poppedBulk(inflight[i])]
          /\ sentBulks' = Append(sentBulks, poppedBulk(inflight[i]))
          /\ UNCHANGED tracerVars
  /\ UNCHANGED <<last, chainVars, spanVars, tagVars, lifeVars, errVars, fieldVars,
                 popResult, opLog, shipped, posted, recorded, serial, callVars, cacheVars, handlerVars>>

\* the POST of the signals of batch i ends; createBulkSignals never throws
SignalsPostSettles(i, outcome) ==
  /\ phase[i] = "signalling"
  /\ shipped' = IF outcome = "ok" THEN Append(shipped, bulk[i]) ELSE shipped
  /\ WriteReturns(i, "ok")
  /\ UNCHANGED <<last, chainVars, spanVars, tagVars, lifeVars, errVars, fieldVars,
                 pendVars, sentBulks, posted, recorded, serial, callVars, cacheVars, handlerVars>>

NextSignals ==
  \/ \E opts \in SigOptions : SigStartSpan(opts)
  \/ \E s \in 1..Len(spans) : SigEndSpan(s)
  \/ SigFlush
  \/ \E name \in SignalNames : SendTraceSignal(name)
  \/ \E name \in SignalNames : SendSessionSignal(name)
  \/ \E i \in 1..Len(inflight), o \in {"ok", "non2xx", "network_error"} : SpansPostSettles(i, o)
  \/ \E i \in 1..Len(inflight) : PopSignals(i)
  \/ \E i \in 1..Len(inflight), o \in {"ok", "non2xx", "network_error"} : SignalsPostSettles(i, o)

SpecSignals == InitBackendSpanWriter /\ [][NextSignals]_vars

\* Instrumented calls: withSpan and the wrapper the @span decorator installs
\* (spanDecorator.ts). One call is made at a time from the root context; the
\* wrapped function returns a value, throws, or returns a promise that
\* resolves or rejects later.
MaxCallSpans == 2

\* the errors a wrapped function throws or rejects with, and the TypeError
\* JSON.stringify throws on a circular structure
FnErrors ==
  {[name |-> "Error", message |-> "This is a test error",
    stack |-> "Error: This is a test error\n    at fn"]}
CircularError ==
  [name |-> "TypeError", message |-> "Converting circular structure to JSON",
   stack |-> "TypeError: Converting circular structure to JSON\n    at JSON.stringify"]

\* a promise as a value: JSON.stringify gives "{}" for it
JSPromise == [type |-> "promise", text |-> "", json |-> "{}"]
\* opts.inputData where it is given
CustomInput == [type |-> "string", text |-> "custom input", json |-> "\"custom input\""]
AsString(text) == [type |-> "string", text |-> text, json |-> ""]

\* replacer(key, value): turns a bigint and a function into a string and
\* returns every other value as it is, a circular structure included
replacer(value) ==
  IF value.type = "bigint" THEN AsString(value.text)
  ELSE IF value.type = "function" THEN AsString("[Function anonymous]")
  ELSE value

\* JSON.stringify(v, replacer, 2) throws
PrettyThrows(v) == StringifyThrows(replacer(v))
\* JSON.stringify(v, replacer, 2) where it does not throw
Pretty(v) ==
  CASE replacer(v).type = "string" -> "\"" \o v.text \o "\""
    [] replacer(v).type = "object" -> "{\n  \"key\": \"value\"\n}"
    [] OTHER -> v.json
\* JSON.stringify(args, replacer, 2) for args = [arg], where it does not throw
PrettyArgs(arg) ==
  CASE replacer(arg).type = "string" -> "[\n  \"" \o arg.text \o "\"\n]"
    [] replacer(arg).type = "object" -> "[\n  {\n    \"key\": \"value\"\n  }\n]"
    [] OTHER -> "[\n  null\n]"

Idle == call.pc \in {"idle", "done"}
EndCallsOf(s) == IF Has(endCalls, s) THEN endCalls[s] ELSE 0

\* tracer.endSpan(span) called by a wrapper, from the root context
WrapperEndsSpan(s) ==
  /\ endSpan(1, s)
  /\ endCalls' = Put(endCalls, s, EndCallsOf(s) + 1)

\* a wrapper's catch block: setError with the error's name and message on
\* the span whose fields are f, tracer.endSpan, throw err
Rethrows(c, f, err, how) ==
  /\ spanFields' = Put(spanFields, c.span,
                       setError(f, [code |-> err.name, message |-> err.message, stack |-> err.stack]))
  /\ WrapperEndsSpan(c.span)
  /\ call' = [c EXCEPT !.pc = "done", !.got = how, !.gotError = <<err>>]

\* the end of a wrapper's try block: tracer.endSpan on the span whose fields
\* are f, return v
Returns(c, f, v, how) ==
  /\ spanFields' = Put(spanFields, c.span, f)
  /\ WrapperEndsSpan(c.span)
  /\ call' = [c EXCEPT !.pc = "done", !.got = how, !.gotValue = v]

\* withSpan after fn() returned v, or the promise it returned resolved with v
WithSpanCompletes(c, v, ok, ko) ==
  LET f == FieldsOf(c.span)
  IN IF c.io
     THEN IF setIOThrows(CustomInput, v)
          THEN Rethrows(c, setIO(f, CustomInput, v), CircularError, ko)
          ELSE Returns(c, setIO(f, CustomInput, v), v, ok)
     ELSE Returns(c, f, v, ok)

\* the decorator's wrapper after original returned v, or the promise it
\* returned resolved with v
DecoratorCompletes(c, v, ok, ko) ==
  LET f == FieldsOf(c.span)
      output == IF v.type = "string" THEN v
                ELSE IF v.type = "undefined" THEN JSUndefined
                ELSE AsString(Pretty(v))
  IN IF c.io
     THEN IF setIOThrows(CustomInput, v)
          THEN Rethrows(c, setIO(f, CustomInput, v), CircularError, ko)
          ELSE Returns(c, setIO(f, CustomInput, v), v, ok)
     ELSE IF (v.type # "string" /\ PrettyThrows(v)) \/ PrettyThrows(c.arg)
          THEN Rethrows(c, f, CircularError, ko)
          ELSE Returns(c, setIO(f, AsString(PrettyArgs(c.arg)), output), v, ok)

WrapperFrame == UNCHANGED <<last, chainVars, spanVars, tagVars, lifeVars, errVars, pendVars, sigVars, cacheVars, handlerVars>>

WithSpanCalled(io) ==
  /\ Idle
  /\ Len(spans) < MaxCallSpans
  /\ startSpan(1, Empty)
  /\ call' = [NoCall EXCEPT !.api = "withSpan", !.pc = "running",
                            !.span = Len(spans) + 1, !.io = io]
  /\ UNCHANGED <<spanFields, endCalls>>
  /\ WrapperFrame

WithSpanFnReturns(v) ==
  /\ call.api = "withSpan" /\ call.pc = "running"
  /\ WithSpanCompletes([call EXCEPT !.fn = "returns", !.fnValue = v], v, "returned", "threw")
  /\ WrapperFrame

WithSpanFnThrows(err) ==
  /\ call.api = "withSpan" /\ call.pc = "running"
  /\ Rethrows([call EXCEPT !.fn = "throws", !.fnError = <<err>>],
              FieldsOf(call.span), err, "threw")
  /\ WrapperFrame

\* fn() returned a thenable: withSpan returns result.then(...).catch(...)
WithSpanFnReturnsPromise ==
  /\ call.api = "withSpan" /\ call.pc = "running"
  /\ call' = [call EXCEPT !.pc = "pending", !.got = "promise"]
  /\ UNCHANGED <<tracerVars, spanFields, endCalls>>
  /\ WrapperFrame

WithSpanPromiseResolves(v) ==
  /\ call.api = "withSpan" /\ call.pc = "pending"
  /\ WithSpanCompletes([call EXCEPT !.fn = "resolves", !.fnValue = v], v, "resolved", "rejected")
  /\ WrapperFrame

WithSpanPromiseRejects(err) ==
  /\ call.api = "withSpan" /\ call.pc = "pending"
  /\ Rethrows([call EXCEPT !.fn = "rejects", !.fnError = <<err>>],
              FieldsOf(call.span), err, "rejected")
  /\ WrapperFrame

\* the decorated method is called with one argument
DecoratorCalled(isAsync, io, arg) ==
  /\ Idle
  /\ Len(spans) < MaxCallSpans
  /\ startSpan(1, Empty)
  /\ call' = [NoCall EXCEPT !.api = "span", !.pc = "running", !.span = Len(spans) + 1,
                            !.isAsync = isAsync, !.io = io, !.arg = arg]
  /\ UNCHANGED <<spanFields, endCalls>>
  /\ WrapperFrame

\* original returned a value that is not a promise: only a function that is
\* not a native AsyncFunction does
DecoratorFnReturns(v) ==
  /\ call.api = "span" /\ call.pc = "running" /\ ~call.isAsync
  /\ DecoratorCompletes([call EXCEPT !.fn = "returns", !.fnValue = v], v, "returned", "threw")
  /\ WrapperFrame

\* original threw: only a function that is not a native AsyncFunction does
DecoratorFnThrows(err) ==
  /\ call.api = "span" /\ call.pc = "running" /\ ~call.isAsync
  /\ Rethrows([call EXCEPT !.fn = "throws", !.fnError = <<err>>],
              FieldsOf(call.span), err, "threw")
  /\ WrapperFrame

\* original returned a promise. With isAsync the wrapper returns
\* result.then(...).catch(...); without, it takes the sync path with the
\* promise as the result and returns the promise itself
DecoratorFnReturnsPromise ==
  /\ call.api = "span" /\ call.pc = "running"
  /\ IF call.isAsync
     THEN /\ call' = [call EXCEPT !.pc = "pending", !.got = "promise"]
          /\ UNCHANGED <<tracerVars, spanFields, endCalls>>
     ELSE LET f == FieldsOf(call.span)
          IN IF call.io
             THEN /\ spanFields' = Put(spanFields, call.span, setIO(f, CustomInput, JSPromise))
                  /\ WrapperEndsSpan(call.span)
                  /\ call' = [call EXCEPT !.pc = "detached", !.got = "promise"]
             ELSE IF PrettyThrows(call.arg)
                  THEN Rethrows([call EXCEPT !.fn = "promise"], f, CircularError, "threw")
                  ELSE /\ spanFields' = Put(spanFields, call.span,
                                            setIO(f, AsString(PrettyArgs(call.arg)),
                                                  AsString(Pretty(JSPromise))))
                       /\ WrapperEndsSpan(call.span)
                       /\ call' = [call EXCEPT !.pc = "detached", !.got = "promise"]
  /\ WrapperFrame

DecoratorPromiseResolves(v) ==
  /\ call.api = "span" /\ call.pc = "pending"
  /\ DecoratorCompletes([call EXCEPT !.fn = "resolves", !.fnValue = v], v, "resolved", "rejected")
  /\ WrapperFrame

DecoratorPromiseRejects(err) ==
  /\ call.api = "span" /\ call.pc = "pending"
  /\ Rethrows([call EXCEPT !.fn = "rejects", !.fnError = <<err>>],
              FieldsOf(call.span), err, "rejected")
  /\ WrapperFrame

\* the promise the wrapper returned untouched settles: no handler of the
\* wrapper is attached to it
DetachedPromiseResolves(v) ==
  /\ call.api = "span" /\ call.pc = "detached"
  /\ call' = [call EXCEPT !.pc = "done", !.fn = "resolves", !.fnValue = v,
                          !.got = "resolved", !.gotValue = v]
  /\ UNCHANGED <<tracerVars, spanFields, endCalls>>
  /\ WrapperFrame

DetachedPromiseRejects(err) ==
  /\ call.api = "span" /\ call.pc = "detached"
  /\ call' = [call EXCEPT !.pc = "done", !.fn = "rejects", !.fnError = <<err>>,
                          !.got = "rejected", !.gotError = <<err>>]
  /\ UNCHANGED <<tracerVars, spanFields, endCalls>>
  /\ WrapperFrame

FnValues == {JSUndefined, JSString, JSObject, JSCircular}
FnArgs == {JSString, JSObject, JSCircular}

NextWrap ==
  \/ \E io \in BOOLEAN : WithSpanCalled(io)
  \/ \E v \in FnValues : WithSpanFnReturns(v)
  \/ \E err \in FnErrors : WithSpanFnThrows(err)
  \/ WithSpanFnReturnsPromise
  \/ \E v \in FnValues : WithSpanPromiseResolves(v)
  \/ \E err \in FnErrors : WithSpanPromiseRejects(err)
  \/ \E isAsync, io \in BOOLEAN, arg \in FnArgs : DecoratorCalled(isAsync, io, arg)
  \/ \E v \in FnValues : DecoratorFnReturns(v)
  \/ \E err \in FnErrors : DecoratorFnThrows(err)
  \/ DecoratorFnReturnsPromise
  \/ \E v \in FnValues : DecoratorPromiseResolves(v)
  \/ \E err \in FnErrors : DecoratorPromiseRejects(err)
  \/ \E v \in FnValues : DetachedPromiseResolves(v)
  \/ \E err \in FnErrors : DetachedPromiseRejects(err)

SpecWrap == InitSpanWriter /\ [][NextWrap]_vars

\* The OpenAI wrapper (openaiWrapper.ts): chat.completions.create, with and
\* without params.stream, and the other wrapped methods. One call is made at
\* a time from the root context; a streaming response is iterated by its
\* consumer, which may stop early.
MaxChunks == 2

OpenAIApis == {"chat.completions.create", "embeddings.create"}
OpenAIOptions == [tags |-> [integration |-> "openai"]]

\* JSON.stringify(serializedMessages) and JSON.stringify(params) for the
\* request made
MessagesJson == "[{\"role\":\"user\",\"content\":\"Hi\"}]"
ParamsJson == "{\"model\":\"text-embedding-3-small\",\"input\":\"Hi\"}"

\* a chat completion whose choices[0].message.content is text
Completion == [type |-> "object", text |-> "Hello", json |-> "{\"choices\":[]}"]
\* fullResponse after n chunks
fullResponse(n) == CASE n = 0 -> "" [] n = 1 -> "Hel" [] OTHER -> "Hello"

WrappedCreateCalled(streaming) ==
  /\ Idle
  /\ Len(spans) < MaxCallSpans
  /\ startSpan(1, OpenAIOptions)
  /\ call' = [NoCall EXCEPT !.api = "chat.completions.create", !.pc = "running",
                            !.span = Len(spans) + 1, !.streaming = streaming]
  /\ UNCHANGED <<spanFields, endCalls>>
  /\ WrapperFrame

\* await originalMethod(modifiedParams) gives a result that is not iterated:
\* a completion, or nothing
WrappedCreateResolves(result) ==
  /\ call.api = "chat.completions.create" /\ call.pc = "running"
  /\ LET c == [call EXCEPT !.fn = "resolves", !.fnValue = result]
         f == FieldsOf(call.span)
     IN IF ~call.streaming /\ result.type # "undefined"
        THEN Returns(c, setIO(f, AsString(MessagesJson), AsString(result.text)),
                     result, "resolved")
        ELSE Returns(c, f, result, "resolved")
  /\ WrapperFrame

WrappedCreateRejects(err) ==
  /\ call.api = "chat.completions.create" /\ call.pc = "running"
  /\ Rethrows([call EXCEPT !.fn = "rejects", !.fnError = <<err>>],
              FieldsOf(call.span), err, "rejected")
  /\ WrapperFrame

\* await originalMethod(modifiedParams) gives an async iterable and
\* params.stream is set: wrappedCreate returns wrapStream(result, span, ...),
\* a generator whose body has not started
WrappedCreateReturnsStream ==
  /\ call.api = "chat.completions.create" /\ call.pc = "running" /\ call.streaming
  /\ call' = [call EXCEPT !.pc = "unstarted", !.got = "stream"]
  /\ UNCHANGED <<tracerVars, spanFields, endCalls>>
  /\ WrapperFrame

\* the consumer asks for the next chunk and the underlying stream has one:
\* wrapStream yields it
StreamYields ==
  /\ call.pc \in {"unstarted", "suspended"}
  /\ call.chunks < MaxChunks
  /\ call' = [call EXCEPT !.pc = "suspended", !.chunks = @ + 1]
  /\ UNCHANGED <<tracerVars, spanFields, endCalls>>
  /\ WrapperFrame

\* the consumer asks for the next chunk and the underlying stream is over:
\* setIO, then the finally block with errorOccurred false
StreamEnds ==
  /\ call.pc \in {"unstarted", "suspended"}
  /\ Returns([call EXCEPT !.fn = "stream ends"],
             setIO(FieldsOf(call.span), AsString(MessagesJson),
                   AsString(fullResponse(call.chunks))),
             JSUndefined, "consumed")
  /\ WrapperFrame

\* the consumer asks for the next chunk and the underlying stream throws:
\* the catch block sets errorOccurred and the error and rethrows, and the
\* finally block does not call tracer.endSpan
StreamThrows(err) ==
  /\ call.pc \in {"unstarted", "suspended"}
  /\ spanFields' = Put(spanFields, call.span,
                       setError(FieldsOf(call.span),
                                [code |-> err.name, message |-> err.message, stack |-> err.stack]))
  /\ call' = [call EXCEPT !.pc = "done", !.fn = "stream throws", !.fnError = <<err>>,
                          !.got = "rejected", !.gotError = <<err>>]
  /\ UNCHANGED <<tracerVars, endCalls>>
  /\ WrapperFrame

\* the consumer stops iterating (break, or return() on the generator): a
\* generator suspended at a yield runs its finally block, one whose body has
\* not started runs nothing
ConsumerReturns ==
  /\ call.pc \in {"unstarted", "suspended"}
  /\ IF call.pc = "suspended"
     THEN Returns([call EXCEPT !.fn = "stream abandoned"], FieldsOf(call.span),
                  JSUndefined, "abandoned")
     ELSE /\ call' = [call EXCEPT !.pc = "done", !.fn = "stream abandoned",
                                  !.got = "abandoned"]
          /\ UNCHANGED <<tracerVars, spanFields, endCalls>>
  /\ WrapperFrame

WrappedMethodCalled ==
  /\ Idle
  /\ Len(spans) < MaxCallSpans
  /\ startSpan(1, OpenAIOptions)
  /\ call' = [NoCall EXCEPT !.api = "embeddings.create", !.pc = "running",
                            !.span = Len(spans) + 1]
  /\ UNCHANGED <<spanFields, endCalls>>
  /\ WrapperFrame

\* await originalMethod(...args) gives a result without data, text or
\* embedding: output = JSON.stringify(result)
WrappedMethodResolves(result) ==
  /\ call.api = "embeddings.create" /\ call.pc = "running"
  /\ LET c == [call EXCEPT !.fn = "resolves", !.fnValue = result]
         f == FieldsOf(call.span)
     IN IF StringifyThrows(result)
        THEN Rethrows(c, f, CircularError, "rejected")
        ELSE Returns(c, setIO(f, AsString(ParamsJson),
                              IF result.type = "undefined" THEN JSUndefined
                              ELSE AsString(result.json)),
                     result, "resolved")
  /\ WrapperFrame

WrappedMethodRejects(err) ==
  /\ call.api = "embeddings.create" /\ call.pc = "running"
  /\ Rethrows([call EXCEPT !.fn = "rejects", !.fnError = <<err>>],
              FieldsOf(call.span), err, "rejected")
  /\ WrapperFrame

NextOpenAI ==
  \/ \E streaming \in BOOLEAN : WrappedCreateCalled(streaming)
  \/ \E result \in {Completion, JSUndefined} : WrappedCreateResolves(result)
  \/ \E err \in FnErrors : WrappedCreateRejects(err)
  \/ WrappedCreateReturnsStream
  \/ StreamYields
  \/ StreamEnds
  \/ \E err \in FnErrors : StreamThrows(err)
  \/ ConsumerReturns
  \/ WrappedMethodCalled
  \/ \E result \in {JSUndefined, JSObject, JSCircular} : WrappedMethodResolves(result)
  \/ \E err \in FnErrors : WrappedMethodRejects(err)

SpecOpenAI == InitSpanWriter /\ [][NextOpenAI]_vars

\* configure() called at any time: spans start and end, flush() is called,
\* the timer fires, writes settle, and the options are changed in between.
MaxConfigSpans == 2
ConfigOptions ==
  {Empty, [maxSpans |-> 1], [flushInterval |-> 2], [flushInterval |-> 0, maxSpans |-> 2]}

Configure(opts) ==
  /\ configure(opts)
  /\ lastCall' = [n |-> 1 - lastCall.n, op |-> "configure", id |-> Undefined, arg |-> opts]
  /\ UNCHANGED <<last, chainVars, spanVars, owed, lifeVars, extVars>>

NextConfig ==
  \/ \E opts \in ConfigOptions : Configure(opts)
  \/ Len(spans) < MaxConfigSpans /\ startSpan(1, Empty) /\ UNCHANGED <<last, chainVars, auxVars>>
  \/ \E s \in 1..Len(spans) : EndSpan(1, s) /\ UNCHANGED <<last, chainVars, auxVars>>
  \/ Flush /\ UNCHANGED <<last, chainVars, auxVars>>
  \/ Tick /\ UNCHANGED <<last, chainVars, auxVars>>
  \/ \E i \in 1..Len(inflight), r \in {"resolved", "rejected"} :
       WriteSettles(i, r) /\ UNCHANGED <<last, chainVars, auxVars>>

SpecConfig == InitSpanWriter /\ [][NextConfig]_vars

\* TTLCache (utils/cache.ts): a cache constructed with
\* {ttlMs: CacheTtlMs, maxSize: CacheMaxSize}. data is the Map as the
\* sequence of its entries in insertion order; the time is Date.now().
CacheTtlMs == 2
CacheMaxSize == 2
MaxCacheClock == 4
CacheKeys == {"key1", "key2", "key3"}
\* the set(key, value) calls made
CacheSets ==
  {<<"key1", "value1">>, <<"key1", "updated">>, <<"key2", "value2">>, <<"key3", "value3">>}

\* Map.get(key): <<entry>>, or <<>> for undefined
mapGet(data, key) == SelectSeq(data, LAMBDA e : e.key = key)
\* Map.delete(key)
mapDelete(data, key) == SelectSeq(data, LAMBDA e : e.key # key)
\* Map.set(key, entry): a key the Map holds keeps its place, a new key goes last
mapSet(data, key, entry) ==
  IF mapGet(data, key) # <<>>
  THEN [i \in 1..Len(data) |-> IF data[i].key = key THEN entry ELSE data[i]]
  ELSE Append(data, entry)

\* an expiry test that ends the lifetime when ttlMs has elapsed
expiredAtTtl(entry, t) == t - entry.timestamp >= CacheTtlMs
\* now - entry.timestamp > this.ttlMs
expired(entry, t) == t - entry.timestamp > CacheTtlMs

\* a get that leaves a live entry where it is in the Map
getDataInPlace(data, key, t) ==
  IF mapGet(data, key) # <<>> /\ expired(mapGet(data, key)[1], t)
  THEN mapDelete(data, key)
  ELSE data

\* TTLCache.get(key) at time t: what it returns (<<>> for undefined) and
\* the Map it leaves
getReturns(data, key, t) ==
  LET entry == mapGet(data, key)
  IN IF entry = <<>> THEN <<>>
     ELSE IF expired(entry[1], t) THEN <<>>
     ELSE <<entry[1].value>>
getData(data, key, t) ==
  LET entry == mapGet(data, key)
  IN IF entry = <<>> THEN data
     ELSE IF expired(entry[1], t) THEN mapDelete(data, key)
     ELSE mapSet(mapDelete(data, key), key, entry[1])

\* TTLCache.set(key, value) at time t: the Map it leaves
setData(data, key, value, t) ==
  LET d == mapSet(mapDelete(data, key), key,
                  [key |-> key, value |-> value, timestamp |-> t])
  IN IF Len(d) > CacheMaxSize THEN mapDelete(d, d[1].key) ELSE d

KeysOf(data) == {data[i].key : i \in 1..Len(data)}
\* key becomes the most recently used
Touch(use, key) == Append(SelectSeq(use, LAMBDA k : k # key), key)
CacheFrame ==
  UNCHANGED <<tracerVars, last, chainVars, spanVars, tagVars, lifeVars, errVars,
              fieldVars, pendVars, sigVars, callVars, handlerVars>>

CacheSet(key, value) ==
  /\ cacheData' = setData(cacheData, key, value, now)
  /\ cacheUse' = Touch(cacheUse, key)
  /\ lastSet' = Put(lastSet, key, [at |-> now, value |-> value])
  /\ cacheLast' = [n |-> 1 - cacheLast.n, op |-> "set", key |-> key, result |-> <<>>]
  /\ CacheFrame

CacheGet(key) ==
  /\ cacheData' = getData(cacheData, key, now)
  /\ cacheUse' = IF getReturns(cacheData, key, now) # <<>> THEN Touch(cacheUse, key)
                 ELSE cacheUse
  /\ cacheLast' = [n |-> 1 - cacheLast.n, op |-> "get", key |-> key,
                   result |-> getReturns(cacheData, key, now)]
  /\ UNCHANGED lastSet
  /\ CacheFrame

\* TTLCache.has(key): this.get(key) !== undefined
CacheHas(key) ==
  /\ cacheData' = getData(cacheData, key, now)
  /\ cacheUse' = IF getReturns(cacheData, key, now) # <<>> THEN Touch(cacheUse, key)
                 ELSE cacheUse
  /\ cacheLast' = [n |-> 1 - cacheLast.n, op |-> "has", key |-> key,
                   result |-> IF getReturns(cacheData, key, now) # <<>>
                              THEN <<"true">> ELSE <<"false">>]
  /\ UNCHANGED lastSet
  /\ CacheFrame

CacheDelete(key) ==
  /\ cacheData' = mapDelete(cacheData, key)
  /\ cacheLast' = [n |-> 1 - cacheLast.n, op |-> "delete", key |-> key,
                   result |-> IF mapGet(cacheData, key) # <<>>
                              THEN <<"true">> ELSE <<"false">>]
  /\ UNCHANGED <<cacheUse, lastSet>>
  /\ CacheFrame

CacheClear ==
  /\ cacheData' = <<>>
  /\ cacheLast' = [n |-> 1 - cacheLast.n, op |-> "clear", key |-> "", result |-> <<>>]
  /\ UNCHANGED <<cacheUse, lastSet>>
  /\ CacheFrame

CacheClockAdvances ==
  /\ now < MaxCacheClock
  /\ now' = now + 1
  /\ UNCHANGED <<endTime, firstEnd, tracerVars, last, chainVars, tagVars, lifeVars, extVars>>

NextCache ==
  \/ \E kv \in CacheSets : CacheSet(kv[1], kv[2])
  \/ \E key \in CacheKeys : CacheGet(key)
  \/ \E key \in CacheKeys : CacheHas(key)
  \/ \E key \in CacheKeys : CacheDelete(key)
  \/ CacheClear
  \/ CacheClockAdvances

SpecCache == InitSpanWriter /\ [][NextCache]_vars

\* setTag (helpers.ts) on the tracer: spans start and end in any order from
\* one context, a root span may be given the id of an earlier trace as its
\* session id, batches are flushed, and setTag is called with a
\* span, an id, or nothing, and with tags that are an object or a string.
MaxSetTagSpans == 4

\* setTag(target, tags)
setTag(target, tags) ==
  IF target.kind = "missing" \/ tags.type # "object"
  THEN UNCHANGED tracerVars
  ELSE IF target.kind = "span"
  THEN assignTags({target.span}, tags.value)
  ELSE IF isActiveTrace(target.id)
  THEN addTraceTags(target.id, tags.value)
  ELSE addSessionTags(target.id, tags.value)

\* the targets passed to setTag: undefined, a span, the id of a trace or of
\* a session
SetTagTargets ==
  {[kind |-> "missing", span |-> Undefined, id |-> Undefined]}
    \cup {[kind |-> "span", span |-> s, id |-> Undefined] : s \in 1..Len(spans)}
    \cup {[kind |-> "id", span |-> Undefined, id |-> spans[s].traceId] : s \in 1..Len(spans)}
    \cup {[kind |-> "id", span |-> Undefined, id |-> spans[s].sessionId] : s \in 1..Len(spans)}
\* the tags passed to setTag: an object, or a string
SetTagTags ==
  {[type |-> "object", value |-> [version |-> "1.0"]],
   [type |-> "string", value |-> [version |-> "1.0"]]}

SetTagStartSpan(opts) ==
  /\ Len(spans) < MaxSetTagSpans
  /\ startSpan(1, opts)
  /\ UNCHANGED <<last, chainVars, auxVars>>

SetTag(target, tags) ==
  /\ lastCall.n < MaxTagCalls
  /\ setTag(target, tags)
  /\ lastCall' = [n |-> lastCall.n + 1, op |-> "setTag", id |-> target, arg |-> tags]
  /\ UNCHANGED <<last, chainVars, spanVars, owed, lifeVars, extVars>>

NextSetTag ==
  \/ \E opts \in {Empty} \cup {[sessionId |-> spans[s].traceId] : s \in 1..Len(spans)} :
       SetTagStartSpan(opts)
  \/ \E s \in 1..Len(spans) : EndSpan(1, s) /\ UNCHANGED <<last, chainVars, auxVars>>
  \/ \E target \in SetTagTargets, tags \in SetTagTags : SetTag(target, tags)
  \/ Flush /\ UNCHANGED <<last, chainVars, auxVars>>

SpecSetTag == InitSpanWriter /\ [][NextSetTag]_vars

\* endSpan called any number of times on the same span: spans start and end
\* in one context, every span may be passed to endSpan again after it has
\* ended, batches are flushed and their writes resolve or reject.
MaxRepeatSpans == 2
MaxEndCalls == 2

RepeatStartSpan ==
  /\ Len(spans) < MaxRepeatSpans
  /\ startSpan(1, Empty)
  /\ UNCHANGED <<last, chainVars, auxVars>>

\* tracer.endSpan(s), whether or not s has ended before
RepeatEndSpan(s) ==
  /\ EndCallsOf(s) < MaxEndCalls
  /\ endSpan(1, s)
  /\ endCalls' = Put(endCalls, s, EndCallsOf(s) + 1)
  /\ UNCHANGED <<last, chainVars, spanVars, tagVars, lifeVars, errVars, fieldVars,
                 pendVars, sigVars, call, cacheVars, handlerVars>>

NextRepeat ==
  \/ RepeatStartSpan
  \/ \E s \in 1..Len(spans) : RepeatEndSpan(s)
  \/ Flush /\ UNCHANGED <<last, chainVars, auxVars>>
  \/ \E i \in 1..Len(inflight), result \in {"resolved", "rejected"} :
       WriteSettles(i, result) /\ UNCHANGED <<last, chainVars, auxVars>>

SpecRepeat == InitSpanWriter /\ [][NextRepeat]_vars

\* Every way a span moves through the tracer, interleaved: spans start and
\* end once each in one context, endSpan flushes at the threshold, flush()
\* is called, the timer ticks, shutdown() is called, and the writes of an
\* injected writer overlap and resolve or reject in any order.
MaxPlaceSpans == 3
PlaceOptions == {[maxSpans |-> 2, flushInterval |-> 1]}

PlaceStartSpan ==
  /\ Len(spans) < MaxPlaceSpans
  /\ startSpan(1, Empty)
  /\ UNCHANGED <<last, chainVars, auxVars>>

PlaceShutdown ==
  /\ shutdown
  /\ UNCHANGED <<last, chainVars, spanVars, tagVars, extVars, integrations, origin,
                 uncaught, shutdownCalls, late>>

NextPlaces ==
  \/ \E opts \in PlaceOptions : configure(opts) /\ UNCHANGED <<last, chainVars, auxVars>>
  \/ PlaceStartSpan
  \/ \E s \in 1..Len(spans) : EndSpan(1, s) /\ UNCHANGED <<last, chainVars, auxVars>>
  \/ Flush /\ UNCHANGED <<last, chainVars, auxVars>>
  \/ Tick /\ UNCHANGED <<last, chainVars, auxVars>>
  \/ PlaceShutdown
  \/ \E i \in 1..Len(inflight), result \in {"resolved", "rejected"} :
       WriteSettles(i, result) /\ UNCHANGED <<last, chainVars, auxVars>>

SpecPlaces == InitSpanWriter /\ [][NextPlaces]_vars

\* ZeroEvalCallbackHandler (the LangChain integration): a handler
\* constructed with {maxConcurrentSpans: maxConcurrentSpans} and the default
\* cleanup interval of one minute. Time is Date.now() in minutes and passes
\* from one firing of the cleanup timer to the next. spans and
\* spanStartTimes are the Maps as sequences of entries [key, value] in
\* insertion order. A loop over a Map runs without any other code of the
\* process in between: while sweep is not idle only the loop steps.
MaxRuns == 3
maxConcurrentSpans == 2
MaxHandlerSpans == 3
maxAge == 5
HandlerRunIds == 1..MaxRuns
\* what LangChain passes as input and output of a run
HandlerValues == {JSObject, JSCircular}
SweepIdle == [mode |-> "idle", todo |-> <<>>]
OrphanedError == [message |-> "Span orphaned - auto-cleaned after timeout"]
DestroyedError == [message |-> "Handler destroyed with active span"]

HandlerFrame ==
  UNCHANGED <<last, chainVars, endTime, firstEnd, tagVars, lifeVars, errVars, pendVars,
              sigVars, call, cacheVars>>

\* LazySerializer.toString() throws: the value is not a string and
\* JSON.stringify throws on it
LazyThrows(v) == v.type # "undefined" /\ StringifyThrows(v)
\* span.inputData as the value passed on to setIO
InputDataOf(f) == IF f.inputData = <<>> THEN JSUndefined ELSE AsString(f.inputData[1])

\* tracer.endSpan(span) called by the handler; by and age say who called
HandlerEnds(s, by, age) ==
  /\ endSpan(1, s)
  /\ endCalls' = Put(endCalls, s, EndCallsOf(s) + 1)
  /\ endedBy' = IF Has(endedBy, s) THEN endedBy
                ELSE Put(endedBy, s, [by |-> by, age |-> age])

\* ZeroEvalCallbackHandler.startSpan({runId, input, ...}), reached from the
\* handle*Start callbacks through beginTracerSegment
HandlerStartSpan(runId, input) ==
  /\ sweep = SweepIdle
  /\ Len(spans) < MaxHandlerSpans
  /\ IF mapGet(handlerSpans, runId) # <<>> \/ Len(handlerSpans) >= maxConcurrentSpans
     THEN UNCHANGED <<tracerVars, spanFields, handlerSpans, spanStartTimes, handlerThrew>>
     ELSE /\ startSpan(1, [tags |-> [integration |-> "langchain"]])
          /\ IF LazyThrows(input)
             THEN /\ handlerThrew' = TRUE
                  /\ UNCHANGED <<spanFields, handlerSpans, spanStartTimes>>
             ELSE /\ spanFields' =
                       IF input.type = "undefined" THEN spanFields
                       ELSE Put(spanFields, Len(spans) + 1,
                                setIO(NewFields, AsString(Stringified(input)[1]), JSUndefined))
                  /\ handlerSpans' = mapSet(handlerSpans, runId,
                                            [key |-> runId, value |-> Len(spans) + 1])
                  /\ spanStartTimes' = mapSet(spanStartTimes, runId,
                                              [key |-> runId, value |-> now])
                  /\ UNCHANGED handlerThrew
  /\ UNCHANGED <<now, endCalls, cleanupTimer, sweep, endedBy>>
  /\ HandlerFrame

\* ZeroEvalCallbackHandler.endSpan({runId, output, error, ...}), reached from
\* the handle*End and handle*Error callbacks through finishTracerSegment;
\* error is <<>> when there is none
HandlerEndSpan(runId, output, error) ==
  /\ sweep = SweepIdle
  /\ IF mapGet(handlerSpans, runId) = <<>>
     THEN UNCHANGED <<tracerVars, spanFields, handlerSpans, spanStartTimes, handlerThrew,
                      endCalls, endedBy>>
     ELSE LET s == mapGet(handlerSpans, runId)[1].value
              f == FieldsOf(s)
              withIO == IF output.type = "undefined" THEN f
                        ELSE setIO(f, InputDataOf(f), AsString(Stringified(output)[1]))
              withError == IF error # <<>> THEN setError(withIO, [message |-> error[1]])
                           ELSE withIO
          IN /\ handlerSpans' = mapDelete(handlerSpans, runId)
             /\ spanStartTimes' = mapDelete(spanStartTimes, runId)
             /\ IF LazyThrows(output)
                THEN /\ handlerThrew' = TRUE
                     /\ UNCHANGED <<tracerVars, spanFields, endCalls, endedBy>>
                ELSE /\ spanFields' = Put(spanFields, s, withError)
                     /\ HandlerEnds(s, "callback", now - mapGet(spanStartTimes, runId)[1].value)
                     /\ UNCHANGED handlerThrew
  /\ UNCHANGED <<now, cleanupTimer, sweep>>
  /\ HandlerFrame

\* the keys of the Map m, in insertion order
MapKeys(m) == [i \in 1..Len(m) |-> m[i].key]

\* the cleanup timer fires, one interval after it fired last:
\* cleanupOrphanedSpans() starts its loop over spanStartTimes
CleanupTimerFires ==
  /\ cleanupTimer
  /\ sweep = SweepIdle
  /\ now < MaxClock
  /\ now' = now + 1
  /\ LET old == SelectSeq(spanStartTimes, LAMBDA e : now' - e.value > maxAge)
     IN sweep' = IF old = <<>> THEN SweepIdle
                 ELSE [mode |-> "cleanup", todo |-> MapKeys(old)]
  /\ UNCHANGED <<tracerVars, spanFields, endCalls, handlerSpans, spanStartTimes,
                 cleanupTimer, endedBy, handlerThrew>>
  /\ HandlerFrame

\* one pass of the loop of cleanupOrphanedSpans, for an entry that is older
\* than maxAge
CleanupStep ==
  /\ sweep.mode = "cleanup"
  /\ LET runId == Head(sweep.todo)
         got == mapGet(handlerSpans, runId)
     IN /\ IF got # <<>>
           THEN /\ spanFields' = Put(spanFields, got[1].value,
                                     setError(FieldsOf(got[1].value), OrphanedError))
                /\ HandlerEnds(got[1].value, "cleanup",
                               now - mapGet(spanStartTimes, runId)[1].value)
           ELSE UNCHANGED <<tracerVars, spanFields, endCalls, endedBy>>
        /\ handlerSpans' = mapDelete(handlerSpans, runId)
        /\ spanStartTimes' = mapDelete(spanStartTimes, runId)
  /\ sweep' = IF Len(sweep.todo) = 1 THEN SweepIdle
              ELSE [sweep EXCEPT !.todo = Tail(@)]
  /\ UNCHANGED <<now, cleanupTimer, handlerThrew>>
  /\ HandlerFrame

\* destroy(): the interval is cleared and the loop over spans.values()
\* starts, or, with no span, both Maps are cleared at once
Destroy ==
  /\ sweep = SweepIdle
  /\ cleanupTimer' = FALSE
  /\ IF handlerSpans = <<>>
     THEN /\ spanStartTimes' = <<>>
          /\ UNCHANGED sweep
     ELSE /\ sweep' = [mode |-> "destroy", todo |-> MapKeys(handlerSpans)]
          /\ UNCHANGED spanStartTimes
  /\ UNCHANGED <<tracerVars, now, spanFields, endCalls, handlerSpans, endedBy, handlerThrew>>
  /\ HandlerFrame

\* one pass of the loop of destroy(); after the last one both Maps are
\* cleared
DestroyStep ==
  /\ sweep.mode = "destroy"
  /\ LET runId == Head(sweep.todo)
         s == mapGet(handlerSpans, runId)[1].value
     IN /\ spanFields' = Put(spanFields, s, setError(FieldsOf(s), DestroyedError))
        /\ HandlerEnds(s, "destroy", now - mapGet(spanStartTimes, runId)[1].value)
  /\ IF Len(sweep.todo) = 1
     THEN /\ sweep' = SweepIdle
          /\ handlerSpans' = <<>>
          /\ spanStartTimes' = <<>>
     ELSE /\ sweep' = [sweep EXCEPT !.todo = Tail(@)]
          /\ UNCHANGED <<handlerSpans, spanStartTimes>>
  /\ UNCHANGED <<now, cleanupTimer, handlerThrew>>
  /\ HandlerFrame

NextHandler ==
  \/ \E runId \in HandlerRunIds, input \in HandlerValues : HandlerStartSpan(runId, input)
  \/ \E runId \in HandlerRunIds, output \in HandlerValues : HandlerEndSpan(runId, output, <<>>)
  \/ \E runId \in HandlerRunIds : HandlerEndSpan(runId, JSUndefined, <<"Tool failed">>)
  \/ CleanupTimerFires
  \/ CleanupStep
  \/ Destroy
  \/ DestroyStep

SpecHandler == InitSpanWriter /\ [][NextHandler]_vars

\* One Span object and the clock: end() is called directly on the span, or
\* through Tracer.endSpan, at any time and any number of times.
\* Span.end()
end ==
  /\ endTime' = now
  /\ firstEnd' = IF firstEnd = Undefined THEN now ELSE firstEnd
  /\ UNCHANGED now

\* if (!span.endTime) span.end(), the first statement of Tracer.endSpan
endIfNotEnded ==
  IF endTime = Undefined THEN end ELSE UNCHANGED spanVars

SpanEnd ==
  /\ end
  /\ UNCHANGED <<tracerVars, last, chainVars, tagVars, lifeVars, extVars>>

SpanEndSpan ==
  /\ endIfNotEnded
  /\ UNCHANGED <<tracerVars, last, chainVars, tagVars, lifeVars, extVars>>

ClockAdvances ==
  /\ now < MaxClock
  /\ now' = now + 1
  /\ UNCHANGED <<endTime, firstEnd, tracerVars, last, chainVars, tagVars, lifeVars, extVars>>

NextSpan ==
  \/ SpanEnd
  \/ SpanEndSpan
  \/ ClockAdvances

SpecSpan == InitSpanWriter /\ [][NextSpan]_vars

\* ------------------------------------------------------------------ claims
\* the stack a context holds, read from a given store and array heap
StackIn(st, arrs, c) == IF st[c] = Undefined THEN <<>> ELSE arrs[st[c]]
SpanStarted == Len(spans') = Len(spans) + 1

\* C1: a span started while a span S1 is the current span of the calling
\* context gets parentId = S1.spanId and traceId = S1.traceId; a span started
\* while no span is current has no parentId and a traceId that no span
\* created before it has.
C1_ParentLinkage ==
  [][SpanStarted =>
       LET new == spans'[Len(spans')]
           stk == StackIn(store, arrays, startedIn'[Len(spans')])
       IN IF Len(stk) > 0
          THEN /\ new.parentId = spans[stk[Len(stk)]].spanId
               /\ new.traceId = spans[stk[Len(stk)]].traceId
          ELSE /\ new.parentId = Undefined
               /\ \A s \in 1..Len(spans) : spans[s].traceId # new.traceId]_vars

\* a root, a child of it started while it was current, and a second root
\* started when no span was current
C1_Witness ==
  \E a, b, c \in 1..Len(spans) :
    /\ spans[a].parentId = Undefined
    /\ spans[b].parentId = spans[a].spanId
    /\ spans[b].traceId = spans[a].traceId
    /\ c > b
    /\ spans[c].parentId = Undefined
    /\ spans[c].traceId # spans[a].traceId

\* C2: chains launched one after another without an await between the
\* launches keep separate traces: once all chains are done and flushed, every
\* chain's first span has no parentId, the chains' traceIds are pairwise
\* distinct, and every chain's second span is the child of its first span.
C2_ChainsSeparate ==
  (AllDone /\ Len(written) > 0) =>
    /\ \A i \in 1..NChains : spans[chainSpans[i][1]].parentId = Undefined
    /\ \A i, j \in 1..NChains :
         i # j => spans[chainSpans[i][1]].traceId # spans[chainSpans[j][1]].traceId
    /\ \A i \in 1..NChains :
         spans[chainSpans[i][2]].parentId = spans[chainSpans[i][1]].spanId

\* c descends from d: d is the context c was created in, or an ancestor of it
RECURSIVE Descends(_, _)
Descends(c, d) ==
  /\ ctxParent[c] # Undefined
  /\ (ctxParent[c] = d \/ Descends(ctxParent[c], d))

Unrelated(c, d) == c # d /\ ~Descends(c, d) /\ ~Descends(d, c)

\* the context whose span stacks c continues: c itself when it was created
\* holding no array, else the origin of the context it was created in
RECURSIVE OriginOf(_)
OriginOf(c) ==
  IF ctxParent[c] = Undefined \/ inherited[c] = Undefined
  THEN c
  ELSE OriginOf(ctxParent[c])

SpanEnded == Len(spans') = Len(spans) /\ spans' # spans
CurrentIn(st, arrs, c) == Top(StackIn(st, arrs, c))

Handed == Len(inflight') > Len(inflight)
NewBatch == inflight'[Len(inflight')]

\* C4: a batch handed to the writer holds only spans of traces all of whose
\* started spans have ended.
C4_OnlyCompletedTraces ==
  [][Handed =>
       \A i \in 1..Len(NewBatch), p \in 1..Len(spans') :
         spans'[p].traceId = spans'[NewBatch[i]].traceId => spans'[p].ended]_vars

\* C5: in the shared buffer every span whose parent is in the buffer too
\* comes after its parent.
C5_ParentBeforeChild ==
  \A i, j \in 1..Len(buffer) :
    spans[buffer[j]].spanId = spans[buffer[i]].parentId => j < i

\* where a span is held: the number of its occurrences in the trace buckets,
\* the buffer, the batches in flight and the batches delivered
Occ(seq, s) == Cardinality({i \in 1..Len(seq) : seq[i] = s})
OccBuckets(s) ==
  Cardinality({p \in UNION {{t} \X (1..Len(traceBuckets[t])) : t \in DOMAIN traceBuckets} :
                 traceBuckets[p[1]][p[2]] = s})
Places(s) == OccBuckets(s) + Occ(buffer, s) + Occ(Flat(inflight), s) + Occ(Flat(written), s)
Held(s) == s \in Range(buffer) \cup Range(Flat(inflight)) \cup Range(Flat(written))

Rejected == Len(inflight') < Len(inflight) /\ written' = written
Resolved == Len(inflight') < Len(inflight) /\ written' # written

\* C6: when a write rejects, the failed batch is back at the front of the
\* buffer, whole and in its order, before what entered the buffer in the
\* meantime; a later flush hands the whole buffer over again, a write that
\* resolves delivers its batch, and no span of a failed batch is lost.
C6_RejectedWriteRequeues ==
  /\ [][Rejected =>
          \E i \in 1..Len(inflight) :
            /\ inflight' = RemoveAt(inflight, i)
            /\ buffer' = inflight[i] \o buffer]_vars
  /\ [][(Handed /\ spans' = spans) => (NewBatch = buffer /\ buffer' = <<>>)]_vars
  /\ [][Resolved =>
          \E i \in 1..Len(inflight) : written' = Append(written, inflight[i])]_vars
  /\ [](\A s \in failed : Held(s))

\* a span of a failed batch was delivered by a later flush, and another
\* failed span is back at the front of the buffer, before a span that entered
\* the buffer during its write
C6_Witness ==
  /\ \E s \in failed : s \in Range(Flat(written))
  /\ Len(buffer) >= 2
  /\ buffer[1] \in failed
  /\ buffer[2] \notin failed

\* C7: with BackendSpanWriter, the spans of a batch whose POST got a non-2xx
\* response or failed with a network exception are not dropped: they are in
\* the buffer, in flight again, or delivered.
C7_FailedPostRetried == \A s \in failed : Held(s)

\* C8: a batch in flight is a snapshot (it never changes while its write is
\* pending), a flush leaves nothing of it in the buffer, and every ended span
\* is held in exactly one place, so none is lost and none is handed over twice
\* at a time.
C8_FlushSnapshot ==
  /\ [][Len(inflight') >= Len(inflight) =>
          \A i \in 1..Len(inflight) : inflight'[i] = inflight[i]]_vars
  /\ [][Handed => buffer' = <<>>]_vars
  /\ [](\A s \in 1..Len(spans) : Places(s) = IF spans[s].ended THEN 1 ELSE 0)
  /\ [](\A i \in 1..Len(written) : \A s \in Range(written[i]) :
          Occ(Flat(written), s) = 1)

\* a write is in flight, a span whose trace completed during it waits in the
\* buffer, and a span that completed during an earlier write was delivered
C8_Witness ==
  /\ Len(inflight) >= 1
  /\ \E s \in Range(buffer) : s \notin failed /\ s > inflight[1][1]
  /\ Len(written) >= 1

\* C9 as stated: an endSpan that leaves the buffer with at least maxSpans
\* spans invokes the writer with all of them and empties the buffer; an
\* endSpan that leaves it below maxSpans does not invoke the writer.
C9_ThresholdFlush ==
  [][SpanEnded =>
       IF Handed
       THEN /\ buffer' = <<>>
            /\ Len(NewBatch) >= maxSpans
            /\ SubSeq(NewBatch, 1, Len(buffer)) = buffer
            /\ inflight' = Append(inflight, NewBatch)
       ELSE /\ Len(buffer') < maxSpans
            /\ inflight' = inflight]_vars

\* C9, amended: the same, except that an endSpan that leaves the buffer empty
\* invokes no write whatever maxSpans is.
C9_ThresholdFlushNonEmpty ==
  [][SpanEnded =>
       IF Handed
       THEN /\ buffer' = <<>>
            /\ Len(NewBatch) >= maxSpans
            /\ SubSeq(NewBatch, 1, Len(buffer)) = buffer
            /\ inflight' = Append(inflight, NewBatch)
       ELSE /\ (Len(buffer') < maxSpans \/ buffer' = <<>>)
            /\ inflight' = inflight]_vars

\* with maxSpans = 2, two ended root spans were written by the endSpan of the
\* second, and a third ended span waits in the buffer
C9_Witness ==
  /\ maxSpans = 2
  /\ Len(inflight) = 1
  /\ Len(inflight[1]) = 2
  /\ Len(buffer) = 1
  /\ failed = {}

WasHanded(s) == s \in Range(Flat(inflight)) \cup Range(Flat(written)) \cup failed

\* C13: isActiveTrace(t) is true as long as a span of t was started and no
\* span of t has been handed to the writer, also after the last span of t
\* ended; it is false once the spans of t were handed over, and false for an
\* id that no span has as traceId.
C13_ActiveUntilFlushed ==
  /\ \A s \in 1..Len(spans) :
       LET t == spans[s].traceId
           handed == \E p \in 1..Len(spans) : spans[p].traceId = t /\ WasHanded(p)
           open == \E p \in 1..Len(spans) : spans[p].traceId = t /\ ~spans[p].ended
       IN /\ ~handed => isActiveTrace(t)
          /\ (handed /\ ~open) => ~isActiveTrace(t)
  /\ \A t \in 1..(uuids + 1) :
       (\A s \in 1..Len(spans) : spans[s].traceId # t) => ~isActiveTrace(t)

\* C20: currentSpan() never returns a span that has ended; so once every
\* span started in the context has ended, in whatever order, currentSpan()
\* is undefined and the next startSpan creates a root span.
C20_CurrentSpanNotEnded ==
  /\ [](currentSpan(1) # Undefined => ~spans[currentSpan(1)].ended)
  /\ []((\A s \in 1..Len(spans) : spans[s].ended) => currentSpan(1) = Undefined)
  /\ [][(SpanStarted /\ \A s \in 1..Len(spans) : spans[s].ended) =>
          /\ spans'[Len(spans')].parentId = Undefined
          /\ \A s \in 1..Len(spans) : spans[s].traceId # spans'[Len(spans')].traceId]_vars

\* C12: end() is idempotent: after any number of end() calls the span's
\* endTime is the value its first end() call set.
C12_EndIdempotent == firstEnd # Undefined => endTime = firstEnd

\* C14: the tags added with addTraceTags while a span of the trace was active
\* are on that span, with the values of the latest call, when it is in a
\* batch handed to the writer.
C14_TraceTagsDelivered ==
  \A s \in Range(Flat(inflight)) \cup Range(Flat(written)) :
    \A k \in DOMAIN owed[s] :
      /\ k \in DOMAIN TagsOf(s)
      /\ TagsOf(s)[k] = owed[s][k]

TagCall == lastCall'.n = lastCall.n + 1
AtWriter(s) == s \in Range(Flat(inflight)) \cup Range(Flat(written))
InBucketOrBuffer(s) ==
  \/ s \in Range(buffer)
  \/ \E t \in DOMAIN traceBuckets : s \in Range(traceBuckets[t])
TagCallMatches(s) ==
  IF lastCall'.op = "addTraceTags"
  THEN spans[s].traceId = lastCall'.id
  ELSE spans[s].sessionId = lastCall'.id

\* C15: addTraceTags(t, tags) overlays tags on the tags of every span with
\* traceId t that is in a bucket or in the buffer, addSessionTags(s, tags) on
\* those of every such span with sessionId s; the tags of the spans of other
\* traces (sessions) and of the spans that are with the writer stay as they
\* were.
C15_TagFrame ==
  [][TagCall =>
       \A s \in 1..Len(spans) :
         /\ (TagCallMatches(s) /\ InBucketOrBuffer(s)) =>
              tagObjs'[spans'[s].tags] =
                [k \in DOMAIN TagsOf(s) \cup DOMAIN lastCall'.arg |->
                   IF k \in DOMAIN lastCall'.arg THEN lastCall'.arg[k] ELSE TagsOf(s)[k]]
         /\ (~TagCallMatches(s) \/ AtWriter(s)) =>
              tagObjs'[spans'[s].tags] = TagsOf(s)]_vars

\* after an addTraceTags call: a buffered span of the trace has the tags of
\* the call, a span that is with the writer has not
C15_Witness ==
  /\ lastCall.op = "addTraceTags"
  /\ \E s \in Range(buffer) :
       /\ spans[s].traceId = lastCall.id
       /\ \A k \in DOMAIN lastCall.arg :
            k \in DOMAIN TagsOf(s) /\ TagsOf(s)[k] = lastCall.arg[k]
  /\ \E h \in 1..Len(spans) :
       /\ AtWriter(h)
       /\ \A k \in DOMAIN lastCall.arg : k \notin DOMAIN TagsOf(h)

PassedTags == IF Has(lastCall'.arg, "tags") THEN lastCall'.arg.tags ELSE Empty

\* C16: the tags of a span started under a parent are the parent's tags at
\* that moment overlaid with the tags passed to startSpan, those of a root
\* span are the passed tags, and no two spans share a tag map.
C16_TagsAtCreation ==
  /\ [][SpanStarted =>
          LET n == Len(spans')
              stk == StackIn(store, arrays, startedIn'[n])
              newTags == tagObjs'[spans'[n].tags]
          IN IF Len(stk) > 0
             THEN LET parentTags == tagObjs[spans[stk[Len(stk)]].tags]
                  IN newTags =
                       [k \in DOMAIN parentTags \cup DOMAIN PassedTags |->
                          IF k \in DOMAIN PassedTags THEN PassedTags[k] ELSE parentTags[k]]
             ELSE newTags = PassedTags]_vars
  /\ [](\A a, b \in 1..Len(spans) : a # b => spans[a].tags # spans[b].tags)

\* a child started with a tag that collides with one of its parent has the
\* passed value and the parent's other tags, and the parent its own value
C16_Witness ==
  /\ lastCall.op = "startSpan"
  /\ Has(lastCall.arg, "tags")
  /\ \E p \in 1..Len(spans) :
       LET c == Len(spans)
       IN /\ spans[c].parentId = spans[p].spanId
          /\ \E k \in DOMAIN lastCall.arg.tags :
               /\ k \in DOMAIN TagsOf(p)
               /\ TagsOf(p)[k] # lastCall.arg.tags[k]
               /\ TagsOf(c)[k] = lastCall.arg.tags[k]
          /\ \E k \in DOMAIN TagsOf(p) :
               /\ k \notin DOMAIN lastCall.arg.tags
               /\ TagsOf(c)[k] = TagsOf(p)[k]

\* C17: a span started under a parent has the parent's sessionId and
\* sessionName whatever was passed to startSpan; a root span has the passed
\* sessionId, or one that no span before it has; spans with the same traceId
\* have the same sessionId.
C17_SessionInheritance ==
  /\ [][SpanStarted =>
          LET n == Len(spans')
              stk == StackIn(store, arrays, startedIn'[n])
              opts == lastCall'.arg
          IN IF Len(stk) > 0
             THEN /\ spans'[n].sessionId = spans[stk[Len(stk)]].sessionId
                  /\ spans'[n].sessionName = spans[stk[Len(stk)]].sessionName
             ELSE IF Has(opts, "sessionId")
                  THEN spans'[n].sessionId = opts.sessionId
                  ELSE /\ spans'[n].sessionId \notin SessionIds \cup {Undefined}
                       /\ \A s \in 1..Len(spans) :
                            spans[s].sessionId # spans'[n].sessionId]_vars
  /\ [](\A a, b \in 1..Len(spans) :
          spans[a].traceId = spans[b].traceId => spans[a].sessionId = spans[b].sessionId)

\* a child started with a sessionId and a sessionName of its own under a
\* parent of another session
C17_Witness ==
  /\ lastCall.op = "startSpan"
  /\ Has(lastCall.arg, "sessionId")
  /\ Has(lastCall.arg, "sessionName")
  /\ \E p \in 1..Len(spans) :
       LET c == Len(spans)
       IN /\ spans[c].parentId = spans[p].spanId
          /\ spans[p].sessionId # lastCall.arg.sessionId
          /\ spans[c].sessionId = spans[p].sessionId
          /\ spans[c].sessionName = spans[p].sessionName

\* C11: when writer.write rejects, the failure reaches none of the callers:
\* endSpan, shutdown() and a direct flush() complete and no rejection of a
\* flush() promise is left to the code using the tracer.
C11_NoFailurePropagated == uncaught = 0

ShutdownCalled == shutdownCalls' = shutdownCalls + 1

\* C18: the first shutdown() hands every span of the shared buffer to the
\* writer in one batch and leaves the buffer empty; every later shutdown()
\* hands nothing over, leaves the buffer as it is and tears no integration
\* down.
C18_ShutdownFlushesOnce ==
  [][ShutdownCalled =>
       IF shutdownCalls = 0
       THEN /\ buffer' = <<>>
            /\ IF buffer # <<>>
               THEN /\ inflight' = Append(inflight, buffer)
                    /\ origin'[Len(origin')] = "shutdown"
               ELSE inflight' = inflight
       ELSE /\ inflight' = inflight
            /\ buffer' = buffer
            /\ teardowns' = teardowns]_vars

\* after two shutdown() calls: the batch of the first is with the writer, a
\* span that ended since is still in the buffer, and the integration set up
\* before the first call was torn down once
C18_Witness ==
  /\ shutdownCalls = 2
  /\ \E i \in 1..Len(origin) : origin[i] = "shutdown"
  /\ buffer # <<>>
  /\ \E k \in integrations : teardowns[k] = 1

\* C19: a span started after shutdown() was called is never in a batch
\* handed to the writer.
C19_NoSpansAfterShutdown ==
  \A s \in late : s \notin Range(Flat(inflight)) \cup Range(Flat(written))

EndedSpan == CHOOSE s \in 1..Len(spans) : spans'[s].ended /\ ~spans[s].ended
SpanWithId(id) ==
  IF \E p \in 1..Len(spans) : spans[p].spanId = id
  THEN CHOOSE p \in 1..Len(spans) : spans[p].spanId = id
  ELSE Undefined

\* C21: endSpan(span) in a context takes span off that context's stack when
\* span is its top, and then currentSpan() is the span that was current when
\* span was started (its parent, or none); when span is not the top the
\* stack stays exactly as it was.
C21_PopOnlyTop ==
  [][SpanEnded =>
       LET before == StackIn(store, arrays, last')
           after == StackIn(store', arrays', last')
       IN IF Top(before) = EndedSpan
          THEN /\ after = Pop(before)
               /\ Top(after) = SpanWithId(spans[EndedSpan].parentId)
          ELSE after = before]_vars

\* both cases happened: the outer span was ended first and is still on the
\* stack, the inner span was ended as the top and is gone
C21_Witness ==
  /\ last # Undefined
  /\ \E a, b \in 1..Len(spans) :
       /\ spans[a].ended
       /\ spans[b].ended
       /\ spans[b].parentId = spans[a].spanId
       /\ StackIn(store, arrays, last) = <<a>>

\* C22: a startSpan during which the id source throws does not throw.
C22_StartSpanNeverThrows == ~startThrew

FieldsIn(sf, s) == IF Has(sf, s) THEN sf[s] ELSE NewFields
SetErrorCalled == lastCall'.op = "setError" /\ lastCall' # lastCall

\* C29: a span has status 'ok' exactly as long as no error was recorded on
\* it; status and error change only in a setError call on that span, which
\* leaves status 'error' and the error passed to it, also when an error was
\* recorded before; once 'error', the status stays 'error' through setIO,
\* addSignal, end, endSpan, tag updates, flushes and rejected writes.
C29_ErrorStatusSticks ==
  /\ [](\A s \in 1..Len(spans) :
          FieldsOf(s).status = "ok" <=> FieldsOf(s).error = <<>>)
  /\ [][\A s \in 1..Len(spans) :
          FieldsOf(s).status = "error" => FieldsIn(spanFields', s).status = "error"]_vars
  /\ [][\A s \in 1..Len(spans) :
          (\/ FieldsIn(spanFields', s).status # FieldsOf(s).status
           \/ FieldsIn(spanFields', s).error # FieldsOf(s).error)
            => SetErrorCalled /\ lastCall'.id = s]_vars
  /\ [][SetErrorCalled =>
          /\ FieldsIn(spanFields', lastCall'.id).status = "error"
          /\ FieldsIn(spanFields', lastCall'.id).error = <<lastCall'.arg>>]_vars

\* a span with an error, input, a signal and a trace tag is back in the
\* buffer after a rejected write, and the last setError on it replaced the
\* error recorded before
C29_Witness ==
  /\ lastCall.op = "setError"
  /\ \E s \in failed \cap Range(buffer) :
       /\ lastCall.id = s
       /\ FieldsOf(s).status = "error"
       /\ FieldsOf(s).error = <<lastCall.arg>>
       /\ lastCall.arg.code = "TypeError"
       /\ FieldsOf(s).inputData # <<>>
       /\ FieldsOf(s).signals # Empty
       /\ Has(TagsOf(s), "version")

SetIOCalled == lastCall'.op = "setIO" /\ lastCall' # lastCall

\* C30: setIO(input, output) leaves inputData as it was when input is
\* undefined and outputData as it was when output is undefined, sets the
\* field of a supplied argument to the string itself or to its JSON text, and
\* changes no other field of the span.
C30_SetIOFrame ==
  [][SetIOCalled =>
       LET f == FieldsOf(TheSpan)
           g == FieldsIn(spanFields', TheSpan)
           input == lastCall'.arg.input
           output == lastCall'.arg.output
       IN /\ input.type = "undefined" => g.inputData = f.inputData
          /\ output.type = "undefined" => g.outputData = f.outputData
          /\ input.type = "string" => g.inputData = <<input.text>>
          /\ input.type = "object" => g.inputData = <<input.json>>
          /\ (output.type = "string" /\ input.type # "circular") =>
               g.outputData = <<output.text>>
          /\ (output.type = "object" /\ input.type # "circular") =>
               g.outputData = <<output.json>>
          /\ g.status = f.status
          /\ g.error = f.error
          /\ g.signals = f.signals]_vars

\* setIO(undefined, 'input string') after the input was recorded by an
\* earlier call: both are there
C30_Witness ==
  /\ lastCall.op = "setIO"
  /\ lastCall.arg.input = JSUndefined
  /\ lastCall.arg.output = JSString
  /\ FieldsOf(TheSpan).inputData = <<JSObject.json>>
  /\ FieldsOf(TheSpan).outputData = <<JSString.text>>

\* the calls of the log made for (scope, id) after its last pop before
\* position n, and what a pop at position n has to return for them
LastPopBefore(n, scope, id) ==
  LET pops == {i \in 1..(n - 1) :
                 opLog'[i].op = "pop" /\ opLog'[i].scope = scope /\ opLog'[i].id = id}
  IN IF pops = {} THEN 0 ELSE CHOOSE i \in pops : \A j \in pops : j <= i
AddsBefore(n, scope, id) ==
  {i \in (LastPopBefore(n, scope, id) + 1)..(n - 1) :
     opLog'[i].op = "add" /\ opLog'[i].scope = scope /\ opLog'[i].id = id}
ExpectedPop(n, scope, id) ==
  LET adds == AddsBefore(n, scope, id)
      names == {opLog'[i].name : i \in adds}
  IN IF adds = {} THEN <<>>
     ELSE <<[name \in names |->
               opLog'[CHOOSE i \in adds :
                        /\ opLog'[i].name = name
                        /\ \A j \in adds : opLog'[j].name = name => j <= i].signal]>>
PendingCall == Len(opLog') = Len(opLog) + 1
BufferOf(scope, tb, sb) == IF scope = "trace" THEN tb ELSE sb

\* C28: popPending(id) returns the signals added for id since its previous
\* pop, each name with the value written last, or nothing if there are none,
\* and removes them; an add or a pop for one id leaves the pending signals of
\* every other id of the scope, and the whole other scope, as they were.
C28_PendingStore ==
  [][PendingCall =>
       LET n == Len(opLog')
           made == opLog'[n]
           other == IF made.scope = "trace" THEN "session" ELSE "trace"
           before == BufferOf(made.scope, traceBuffer, sessionBuffer)
           after == BufferOf(made.scope, traceBuffer', sessionBuffer')
       IN /\ made.op = "pop" =>
               /\ popResult' = ExpectedPop(n, made.scope, made.id)
               /\ ~Has(after, made.id)
          /\ BufferOf(other, traceBuffer', sessionBuffer')
               = BufferOf(other, traceBuffer, sessionBuffer)
          /\ \A id \in (DOMAIN before \cup DOMAIN after) \ {made.id} :
               Has(before, id) /\ Has(after, id) /\ after[id] = before[id]]_vars

\* two signals were added under one name for one id, and the pop that
\* followed returned that name alone with the value written last
C28_Witness ==
  /\ Len(opLog) = 3
  /\ opLog[1].op = "add" /\ opLog[2].op = "add" /\ opLog[3].op = "pop"
  /\ opLog[1].scope = opLog[3].scope /\ opLog[1].id = opLog[3].id
  /\ opLog[2].scope = opLog[3].scope /\ opLog[2].id = opLog[3].id
  /\ opLog[1].name = opLog[2].name
  /\ opLog[1].signal # opLog[2].signal
  /\ popResult = <<[name \in {opLog[2].name} |-> opLog[2].signal]>>

ValuesOf(creates) == {r.value : r \in creates}
PendingValues(buf) == {buf[id][name].value : <<id, name>> \in
                         UNION {{<<i, n>> : n \in DOMAIN buf[i]} : i \in DOMAIN buf}}

\* C26: every trace or session signal POSTed to the backend belongs to a
\* trace or session of which a span is in a batch whose POST the backend
\* accepted before, and no recorded signal is POSTed twice, whatever the
\* interleaving of the signal calls and of overlapping writes.
C26_SignalsAfterSpans ==
  /\ \A i \in 1..Len(sentBulks) : \A r \in sentBulks[i] :
       \E s \in posted :
         \/ r.entity_type = "trace" /\ spans[s].traceId = r.entity_id
         \/ r.entity_type = "session" /\ spans[s].sessionId = r.entity_id
  /\ \A i \in 1..Len(sentBulks) :
       /\ Cardinality(ValuesOf(sentBulks[i])) = Cardinality(sentBulks[i])
       /\ \A j \in 1..Len(sentBulks) :
            i # j => ValuesOf(sentBulks[i]) \cap ValuesOf(sentBulks[j]) = {}

\* two writes overlap, their batches hold spans of one session, and the one
\* that came to pop first has POSTed the session's signal
C26_Witness ==
  /\ Len(inflight) = 2
  /\ phase[1] = "signalling"
  /\ phase[2] = "posted"
  /\ SessionIdsOf(inflight[1]) \cap SessionIdsOf(inflight[2]) # {}
  /\ \E r \in sentBulks[Len(sentBulks)] : r.entity_type = "session"

\* C27: a signal recorded with sendTraceSignal or sendSessionSignal that was
\* not overwritten since is in the pending store, in a body whose POST is
\* under way, or in a body the backend accepted: it never leaves the store
\* without being shipped.
C27_SignalsShipped ==
  \A v \in recorded :
    \/ v \in PendingValues(traceBuffer) \cup PendingValues(sessionBuffer)
    \/ \E i \in 1..Len(bulk) : phase[i] = "signalling" /\ v \in ValuesOf(bulk[i])
    \/ \E i \in 1..Len(shipped) : v \in ValuesOf(shipped[i])

\* the instrumented call of span s is over: a later call was started, or the
\* call of s returned, threw, settled, or its stream finished or was left
CallOver(s) == call.span # s \/ call.pc = "done"

\* C23: every span the OpenAI wrapper started is passed to tracer.endSpan
\* exactly once: never twice, and once when its call is over, whether the
\* call returned or threw, or its streaming response was consumed to the
\* end, abandoned by the consumer, or threw during the iteration.
C23_OpenAIEndsOnce ==
  \A s \in 1..Len(spans) :
    /\ EndCallsOf(s) <= 1
    /\ CallOver(s) => EndCallsOf(s) = 1

\* the part of C23 for a streaming response whose underlying stream throws
StreamThrowEndsSpan ==
  call.pc = "done" /\ call.fn = "stream throws" => EndCallsOf(call.span) = 1

\* the part of C23 for the other paths: the call returned or threw, or the
\* stream was consumed to the end or left after a chunk was received
OtherPathsEndOnce ==
  /\ \A s \in 1..Len(spans) : EndCallsOf(s) <= 1
  /\ /\ call.pc = "done"
     /\ call.fn # "stream throws"
     /\ ~(call.fn = "stream abandoned" /\ call.chunks = 0)
     => EndCallsOf(call.span) = 1

\* what a wrapped function that failed leaves: the span has status 'error'
\* with the error's name and message, and the caller gets the same error
FailureReported ==
  LET err == call.fnError[1]
      f == FieldsOf(call.span)
  IN /\ f.status = "error"
     /\ f.error = <<[code |-> err.name, message |-> err.message, stack |-> err.stack]>>
     /\ call.got = (IF call.fn = "throws" THEN "threw" ELSE "rejected")
     /\ call.gotError = call.fnError

\* what a wrapped function that succeeded leaves: the caller gets its result
SuccessReturned ==
  /\ call.got = (IF call.fn = "returns" THEN "returned" ELSE "resolved")
  /\ call.gotValue = call.fnValue
  /\ call.gotError = <<>>

\* C24: withSpan and the @span decorator end the span they start exactly
\* once whether the wrapped function returns, throws, resolves or rejects; on
\* failure the span has status 'error' with the error's name and message and
\* the caller gets the original error; on success the caller gets the
\* function's result.
C24_WrapperContract ==
  /\ \A s \in 1..Len(spans) :
       /\ EndCallsOf(s) <= 1
       /\ CallOver(s) => EndCallsOf(s) = 1
  /\ call.api \in {"withSpan", "span"} /\ call.pc = "done" =>
       /\ call.fn \in {"throws", "rejects"} => FailureReported
       /\ call.fn \in {"returns", "resolves"} => SuccessReturned

\* C25: a value that cannot be serialized among the arguments or in the
\* result of an instrumented function never makes the instrumented call
\* fail: the caller gets an error only if the function itself failed, and
\* that error, and the span gets status 'error' only then.
C25_SerializationNeverThrows ==
  call.api \in {"withSpan", "span"} /\ call.pc = "done" =>
    /\ call.gotError = call.fnError
    /\ FieldsOf(call.span).status = "error" => call.fnError # <<>>

\* the decorator's part of C24 for values that JSON.stringify serializes: a
\* decorated function whose promise rejects leaves a span with status 'error'
DecoratorRejectionRecorded ==
  call.api = "span" /\ call.pc = "done" /\ call.fn = "rejects" =>
    FieldsOf(call.span).status = "error"

\* the withSpan part of C24 for values that JSON.stringify serializes
WithSpanContract ==
  call.api = "withSpan" /\ call.pc = "done" /\ call.fnValue.type # "circular" =>
    /\ EndCallsOf(call.span) = 1
    /\ call.fn \in {"throws", "rejects"} => FailureReported
    /\ call.fn \in {"returns", "resolves"} => SuccessReturned

AddSignalCalled == lastCall'.op = "addSignal" /\ lastCall' # lastCall

\* the classification of a value passed without a type: a boolean is
\* 'boolean', a number 'numerical', the strings 'true' and 'false' in any
\* case 'boolean', a string that parses as a finite number 'numerical', every
\* other string 'boolean'
ClassifiedAs(value) ==
  IF value.type = "boolean" THEN "boolean"
  ELSE IF value.type = "number" THEN "numerical"
  ELSE IF toLowerCase(value.text) \in {"true", "false"} THEN "boolean"
  ELSE IF value.text \in NumericStrings THEN "numerical"
  ELSE "boolean"

\* the signal an addSignal call stored has the value passed and the type
\* passed, or the classification of the value when no type was passed, and
\* detectSignalType gives the type addSignal detects
StoredAsClassified(a, stored) ==
  /\ stored.value = a.value
  /\ stored.type = (IF a.type # <<>> THEN a.type[1] ELSE ClassifiedAs(a.value))
  /\ detectSignalType(a.value) = signalType(a.value)

\* C31: addSignal(name, value) without a type stores the value as 'boolean'
\* for a boolean, 'numerical' for a number, 'boolean' for the strings 'true'
\* and 'false' in any case, 'numerical' for a string that parses as a finite
\* number and 'boolean' for every other string; a type passed to addSignal
\* is the type stored; detectSignalType classifies every value as addSignal
\* does.
C31_SignalClassification ==
  [][AddSignalCalled =>
       StoredAsClassified(lastCall'.arg,
                          FieldsIn(spanFields', TheSpan).signals[lastCall'.arg.name])]_vars

\* the same for every value but the strings Number() turns into Infinity
C31_ExceptInfinite ==
  [][AddSignalCalled /\ lastCall'.arg.value.text \notin InfiniteStrings =>
       StoredAsClassified(lastCall'.arg,
                          FieldsIn(spanFields', TheSpan).signals[lastCall'.arg.name])]_vars

\* the three error fields of a wire record are all absent, or all present
NoErrorFields(r) == r.error_code = <<>> /\ r.error_message = <<>> /\ r.error_stack = <<>>
AllErrorFields(r) == r.error_code # <<>> /\ r.error_message # <<>> /\ r.error_stack # <<>>

\* C32: in the record Span.toJSON returns and in the record
\* BackendSpanWriter.write puts in the payload, a span with no error has none
\* of error_code, error_message and error_stack, and a span with an error
\* has all three.
C32_ErrorFieldsTogether ==
  LET f == FieldsOf(TheSpan)
  IN \A r \in {toJSON(f), payloadOf(toJSON(f))} :
       IF f.error = <<>> THEN NoErrorFields(r) ELSE AllErrorFields(r)

\* the part of C32 for Span.toJSON and an error set with code, message and
\* stack
C32_ToJSONFullError ==
  LET f == FieldsOf(TheSpan)
  IN \/ f.error # <<>> /\ ~Has(f.error[1], "stack")
     \/ IF f.error = <<>> THEN NoErrorFields(toJSON(f)) ELSE AllErrorFields(toJSON(f))

ConfigureCalled == lastCall'.op = "configure" /\ lastCall' # lastCall

\* C33: configure(opts) sets the flush interval and the maxSpans threshold
\* to the options supplied and keeps the value of an option that is not
\* supplied; it leaves the buffer, the trace buckets, the active-span
\* counters, the context stacks, the spans and the batches handed to the
\* writer as they were, also when the new maxSpans is at or below the length
\* of the buffer; and no other operation changes the two settings.
C33_ConfigureNotRetroactive ==
  /\ [][ConfigureCalled =>
          /\ flushIntervalMs' = IF Has(lastCall'.arg, "flushInterval")
                                THEN lastCall'.arg.flushInterval * 1000
                                ELSE flushIntervalMs
          /\ maxSpans' = IF Has(lastCall'.arg, "maxSpans")
                         THEN lastCall'.arg.maxSpans ELSE maxSpans
          /\ UNCHANGED <<buffer, traceBuckets, activeTraceCounts, arrays, store,
                         spans, inflight, written, sinceLastFlush>>]_vars
  /\ [][~ConfigureCalled => UNCHANGED <<maxSpans, flushIntervalMs>>]_vars

\* configure has just lowered maxSpans to the length of a buffer that was
\* never flushed, and the spans are still in the buffer
C33_Witness ==
  /\ lastCall.op = "configure"
  /\ Has(lastCall.arg, "maxSpans")
  /\ maxSpans = lastCall.arg.maxSpans
  /\ Len(buffer) > 0
  /\ Len(buffer) >= maxSpans
  /\ inflight = <<>> /\ written = <<>> /\ failed = {}

CacheCalled(op) == cacheLast'.op = op /\ cacheLast' # cacheLast
\* the key of the keys ks that was used least recently
LeastRecentlyUsed(ks) == SelectSeq(cacheUse, LAMBDA k : k \in ks)[1]

\* C34: the cache never holds more than maxSize entries; a set of a key
\* the cache does not hold, made when it holds maxSize entries, removes the
\* key used least recently, a use being a set or a get that returned the
\* value, and nothing else; every other set removes nothing.
C34_LruEviction ==
  /\ [](Len(cacheData) <= CacheMaxSize)
  /\ [][CacheCalled("set") =>
          LET held == KeysOf(cacheData)
              key == cacheLast'.key
          IN IF key \notin held /\ Cardinality(held) = CacheMaxSize
             THEN KeysOf(cacheData') = (held \ {LeastRecentlyUsed(held)}) \cup {key}
             ELSE KeysOf(cacheData') = held \cup {key}]_vars

\* a set has just evicted a key that was set after a key the cache still
\* holds: the key kept was used later, by a get
C34_Witness ==
  /\ cacheLast.op = "set"
  /\ Len(cacheData) = CacheMaxSize
  /\ \E gone \in DOMAIN lastSet \ KeysOf(cacheData), kept \in KeysOf(cacheData) :
       /\ kept # cacheLast.key
       /\ lastSet[kept].at < lastSet[gone].at
       /\ lastSet[gone].at < lastSet[cacheLast.key].at
       /\ cacheUse = <<gone, kept, cacheLast.key>>

\* C35: get(key) returns the value and has(key) true exactly when the cache
\* holds the key and no more than ttlMs has elapsed since the last set of
\* the key; otherwise they return undefined and false and leave the key out
\* of the cache; every entry carries the time and the value of the last set
\* of its key, so a get does not extend its lifetime and a set restarts it.
C35_TtlExpiry ==
  /\ [](\A i \in 1..Len(cacheData) :
          /\ Has(lastSet, cacheData[i].key)
          /\ cacheData[i].timestamp = lastSet[cacheData[i].key].at
          /\ cacheData[i].value = lastSet[cacheData[i].key].value)
  /\ [][CacheCalled("get") \/ CacheCalled("has") =>
          LET key == cacheLast'.key
              live == key \in KeysOf(cacheData) /\ now - lastSet[key].at <= CacheTtlMs
          IN /\ cacheLast'.result =
                  (IF cacheLast'.op = "get"
                   THEN IF live THEN <<lastSet[key].value>> ELSE <<>>
                   ELSE IF live THEN <<"true">> ELSE <<"false">>)
             /\ ~live => key \notin KeysOf(cacheData')
             /\ live => key \in KeysOf(cacheData')]_vars

\* a get returned undefined for a key whose time has run out since its last
\* set, although the key was read with success after that set: it is the
\* key used last, and another key was set after it
C35_Witness ==
  /\ cacheLast.op = "get"
  /\ cacheLast.result = <<>>
  /\ Has(lastSet, cacheLast.key)
  /\ now - lastSet[cacheLast.key].at = CacheTtlMs + 1
  /\ cacheLast.key \notin KeysOf(cacheData)
  /\ Len(cacheUse) = 2
  /\ cacheUse[2] = cacheLast.key
  /\ lastSet[cacheUse[1]].at > lastSet[cacheLast.key].at

SetTagCalled == lastCall'.op = "setTag" /\ lastCall' # lastCall
\* the traces of which a span was handed to the writer
FlushedTraces == {spans[s].traceId : s \in Range(Flat(inflight))}
\* the tags of the spans in targets are merged with tags and no other tag
\* object changes
TagsApplied(targets, tags) ==
  \A s \in 1..Len(spans) :
    tagObjs'[spans[s].tags] = IF s \in targets THEN Merge(TagsOf(s), tags) ELSE TagsOf(s)

\* C36 without its clause on flushed traces: setTag with an id applies the
\* tags as addTraceTags does when isActiveTrace(id) holds at the call and as
\* addSessionTags does otherwise; with a span it changes the tags of that
\* span only; with no target or with tags that are not an object it changes
\* nothing.
C36_ByActiveTrace ==
  [][SetTagCalled =>
       LET target == lastCall'.id
           tags == lastCall'.arg
       IN /\ UNCHANGED <<spans, buffer, traceBuckets, activeTraceCounts, inflight>>
          /\ IF target.kind = "missing" \/ tags.type # "object"
             THEN TagsApplied({}, tags.value)
             ELSE IF target.kind = "span"
             THEN TagsApplied({target.span}, tags.value)
             ELSE IF isActiveTrace(target.id)
             THEN TagsApplied(TraceTagTargets(target.id), tags.value)
             ELSE TagsApplied(SessionTagTargets(target.id), tags.value)]_vars

\* C36: setTag with a string id applies the tags through addTraceTags
\* exactly when isActiveTrace(id) holds at the call and through
\* addSessionTags otherwise, so that the id of a trace that was flushed is
\* treated as a session id; with a span it changes the tags of that span
\* only; with no target or with tags that are not an object it changes
\* nothing.
C36_SetTagDispatch ==
  [][SetTagCalled =>
       LET target == lastCall'.id
           tags == lastCall'.arg
       IN /\ UNCHANGED <<spans, buffer, traceBuckets, activeTraceCounts, inflight>>
          /\ IF target.kind = "missing" \/ tags.type # "object"
             THEN TagsApplied({}, tags.value)
             ELSE IF target.kind = "span"
             THEN TagsApplied({target.span}, tags.value)
             ELSE /\ IF isActiveTrace(target.id)
                     THEN TagsApplied(TraceTagTargets(target.id), tags.value)
                     ELSE TagsApplied(SessionTagTargets(target.id), tags.value)
                  /\ target.id \in FlushedTraces =>
                       TagsApplied(SessionTagTargets(target.id), tags.value)]_vars

\* the spans of trace t that were started and have not ended
OpenSpans(t) == {s \in 1..Len(spans) : spans[s].traceId = t /\ ~spans[s].ended}
TracesStarted == {spans[s].traceId : s \in 1..Len(spans)}
CounterExact ==
  /\ \A t \in TracesStarted \cup DOMAIN activeTraceCounts :
       IF Has(activeTraceCounts, t)
       THEN /\ activeTraceCounts[t] # NaN
            /\ activeTraceCounts[t] > 0
            /\ activeTraceCounts[t] = Cardinality(OpenSpans(t))
       ELSE OpenSpans(t) = {}
  /\ \A t \in DOMAIN traceBuckets : Has(activeTraceCounts, t)

\* C37: in every reachable state, endSpan repeated on the same span
\* included, the active-span counter of each trace is the number of the
\* trace's spans that are started and not ended, is a positive integer when
\* present, and a trace has a holding bucket only while it has a counter.
C37_CounterExact == CounterExact

\* C37 for the behaviours in which no span is passed to endSpan twice
C37_EndedOnce == (\A s \in 1..Len(spans) : EndCallsOf(s) <= 1) => CounterExact

\* how often span s occurs in the sequence q
Occurrences(q, s) == Cardinality({i \in 1..Len(q) : q[i] = s})
\* an ended span that no flush can reach any more: every span of its trace
\* has ended and it is not in the buffer, in a batch in flight or written
Stranded(s) ==
  /\ spans[s].ended
  /\ OpenSpans(spans[s].traceId) = {}
  /\ s \notin Range(buffer) \cup Range(Flat(inflight)) \cup Range(Flat(written))

\* C38: with endSpan called more than once on the same span, every span
\* appears at most once in the batches written successfully, and every
\* ended span of a trace whose spans have all ended is in the buffer, in a
\* batch in flight or written.
C38_RepeatedEndSafe ==
  \A s \in 1..Len(spans) :
    /\ Occurrences(Flat(written), s) <= 1
    /\ ~Stranded(s)

\* C38 for the behaviours in which no span is passed to endSpan twice
C38_EndedOnce ==
  (\A s \in 1..Len(spans) : EndCallsOf(s) <= 1) =>
    \A s \in 1..Len(spans) : Occurrences(Flat(written), s) <= 1 /\ ~Stranded(s)

\* the spans held by the buckets, one bucket after the other
InBuckets ==
  LET ts == DOMAIN traceBuckets
      F[S \in SUBSET ts] ==
        IF S = {} THEN <<>>
        ELSE LET t == CHOOSE x \in S : TRUE IN traceBuckets[t] \o F[S \ {t}]
  IN F[ts]
\* in how many places span s is: buckets, buffer, batches in flight and
\* batches written, an array that holds it twice counting twice
PlacesOf(s) ==
  Occurrences(InBuckets, s) + Occurrences(buffer, s)
    + Occurrences(Flat(inflight), s) + Occurrences(Flat(written), s)

\* C39: with every span ended once, each ended span is at every moment in
\* exactly one of its trace's bucket, the buffer, a batch in flight and the
\* batches written, and a span that has not ended is in none, whatever the
\* order of endSpan, flush(), threshold flushes, timer ticks, shutdown() and
\* overlapping writes that resolve or reject; a write that settles puts
\* back the span objects of its batch and creates no span.
C39_OnePlace ==
  /\ [](\A s \in 1..Len(spans) : PlacesOf(s) = IF spans[s].ended THEN 1 ELSE 0)
  /\ [][Len(inflight') < Len(inflight) =>
          /\ spans' = spans
          /\ \E i \in 1..Len(inflight) :
               /\ inflight' = RemoveAt(inflight, i)
               /\ buffer' \in {buffer, inflight[i] \o buffer}]_vars

\* a span of a rejected batch is back in the buffer while two writes are in
\* flight, after shutdown() ran
C39_Witness ==
  /\ shuttingDown
  /\ Len(inflight) >= 2
  /\ \E s \in failed : s \in Range(buffer)

\* the spans the handler holds in its Map
Tracked == {handlerSpans[i].value : i \in 1..Len(handlerSpans)}
\* every span the handler started is held by the Map and was not passed to
\* tracer.endSpan, or is not held and was passed to it exactly once; a span
\* ended by the cleanup was older than maxAge and has the error set; the Map
\* never holds more than maxConcurrentSpans spans; after a firing of the
\* timer it holds no span older than maxAge
HandlerEndsOnce ==
  sweep = SweepIdle =>
    /\ \A s \in 1..Len(spans) :
         /\ EndCallsOf(s) = IF s \in Tracked THEN 0 ELSE 1
         /\ Has(endedBy, s) /\ endedBy[s].by = "cleanup" =>
              /\ endedBy[s].age > maxAge
              /\ FieldsOf(s).status = "error"
              /\ FieldsOf(s).error = <<OrphanedError>>
    /\ Len(handlerSpans) <= maxConcurrentSpans
    /\ cleanupTimer =>
         \A i \in 1..Len(spanStartTimes) : now - spanStartTimes[i].value <= maxAge

\* C40: every span the LangChain handler starts is passed to tracer.endSpan
\* exactly once, by its end or error callback, by the cleanup once it is
\* older than 5 minutes, which marks it as an error, or by destroy(); an end
\* callback for a span that was cleaned up ends nothing; the handler never
\* tracks more than maxConcurrentSpans spans.
C40_HandlerEndsOnce == HandlerEndsOnce

\* C40 for the behaviours in which no callback of the handler threw
C40_WhenSerializable == ~handlerThrew => HandlerEndsOnce

====
